---- MODULE Spec2Model ----
(***************************************************************************)
(* Note synthesis and secure export pipeline of the AI Clinical Notes      *)
(* assistant: EncryptionManager (modules/encryption_manager.py),           *)
(* ExportManager (modules/export_manager.py), LLMProcessor                  *)
(* (modules/llm_processing_ollama.py), NoteFormatter                       *)
(* (modules/note_formatter.py) and ICDLookup (modules/icd_lookup.py).      *)
(*                                                                         *)
(* The disk is shared by two application processes (two launches of        *)
(* main.py on the same data directory); each process constructs exactly    *)
(* one EncryptionManager in ClinicalNotesApp.__init__.                     *)
(***************************************************************************)
EXTENDS Integers, Sequences, FiniteSets, TLC

\* ------------------------------------------------------------------ bounds
MaxLen == 2          \* longest plaintext buffer handed to encrypt()
MaxFileOps == 3      \* calls on files explored per run

\* --------------------------------------------------------------- universe
Procs == {1, 2}
NoKey == 0
\* 0x41 'A', and the two bytes of U+00E9: 0xC3 0xA9.  0xC3 or 0xA9 on its
\* own is not valid UTF-8.
Byte == {65, 195, 169}

RECURSIVE SeqsUpTo(_, _)
SeqsUpTo(S, n) ==
  IF n = 0 THEN {<<>>}
  ELSE LET shorter == SeqsUpTo(S, n - 1)
       IN shorter \cup {Append(s, x) : s \in {t \in shorter : Len(t) = n - 1}, x \in S}

Buffers == SeqsUpTo(Byte, MaxLen)

\* Response texts: words over a letter and a blank.
MaxText == 2         \* longest `response` text of one reply
MaxLines == 2        \* lines of a streamed reply
Chars == {"x", " "}
Texts == SeqsUpTo(Chars, MaxText)
Fragments == {<<"x">>, <<" ">>}

\* ------------------------------------------------------------------ paths
\* A path is a sequence of atoms; its string is their concatenation.  No
\* concatenation of atoms other than the atom ".enc" itself contains the
\* substring ".enc".  The configured key file name ".encryption.key" is
\* the atom ".enc" followed by "ryption.key".
KeyPath == <<"data/", ".enc", "ryption.key">>
UserDoc == <<"note">>
ExplicitOut == <<"blob">>

\* ---------------------------------------------------------- file contents
\* A byte string on disk or in memory is  data  (raw bytes), or the 44-byte
\* base64 text of key  keyid  (keyid # NoKey), wrapped in  Len(layers)
\* Fernet tokens; layers[i] = k is an intact token made under key k,
\* layers[i] = -k one whose bytes were altered afterwards.  The outermost
\* token is the last layer.  Tokens and key text are ASCII.
Plain(b) == [layers |-> <<>>, keyid |-> NoKey, data |-> b]
KeyText(k) == [layers |-> <<>>, keyid |-> k, data |-> <<>>]
IsToken(c) == Len(c.layers) > 0
Tampered(c) ==
  IF IsToken(c)
  THEN [c EXCEPT !.layers = SubSeq(@, 1, Len(@) - 1) \o <<0 - @[Len(@)]>>]
  ELSE c

\* Fernet.generate_key(): a fresh random key; the key drawn by process p.
generate_key(p) == p

\* Fernet(key): accepts only 32 url-safe base64-encoded bytes.
ValidKey(c) == c.layers = <<>> /\ c.keyid # NoKey

\* bytes.decode('utf-8'), strict, for one- and two-byte forms.
RECURSIVE Utf8Decode(_)
Utf8Decode(b) ==
  IF b = <<>> THEN [ok |-> TRUE, chars |-> <<>>]
  ELSE IF b[1] < 128
    THEN LET r == Utf8Decode(Tail(b))
         IN [ok |-> r.ok, chars |-> <<b[1]>> \o r.chars]
  ELSE IF b[1] >= 194 /\ b[1] <= 223 /\ Len(b) >= 2 /\ b[2] >= 128 /\ b[2] <= 191
    THEN LET r == Utf8Decode(SubSeq(b, 3, Len(b)))
         IN [ok |-> r.ok, chars |-> <<(b[1] - 192) * 64 + (b[2] - 128)>> \o r.chars]
  ELSE [ok |-> FALSE, chars |-> <<>>]

\* str.encode('utf-8') for code points below U+0800.
RECURSIVE Utf8Encode(_)
Utf8Encode(s) ==
  IF s = <<>> THEN <<>>
  ELSE IF s[1] < 128 THEN <<s[1]>> \o Utf8Encode(Tail(s))
  ELSE <<192 + (s[1] \div 64), 128 + (s[1] % 64)>> \o Utf8Encode(Tail(s))

\* cipher.encrypt(data)
FernetEncrypt(k, c) == [c EXCEPT !.layers = Append(@, k)]

\* cipher.decrypt(token): the HMAC check fails for another key, for altered
\* bytes and for input that is not a token.
FernetDecryptOk(k, c) == IsToken(c) /\ c.layers[Len(c.layers)] = k
FernetDecrypt(k, c) == [c EXCEPT !.layers = SubSeq(@, 1, Len(@) - 1)]

\* EncryptionManager.encrypt(data) for a bytes argument.
encrypt(k, c) == FernetEncrypt(k, c)

\* EncryptionManager.decrypt(encrypted_data): the outcome is an exception
\* or a str; a str is kept as its code points (chars) when the decrypted
\* bytes were raw data, and as the ASCII text itself otherwise.
DecodeStep(d) ==
  IF IsToken(d) \/ d.keyid # NoKey
  THEN [status |-> "str", layers |-> d.layers, keyid |-> d.keyid, chars |-> <<>>]
  ELSE IF Utf8Decode(d.data).ok
  THEN [status |-> "str", layers |-> <<>>, keyid |-> NoKey,
        chars |-> Utf8Decode(d.data).chars]
  ELSE [status |-> "UnicodeDecodeError", layers |-> <<>>, keyid |-> NoKey,
        chars |-> <<>>]

\* an InvalidToken swallowed into an empty str
decrypt_lenient(k, c) ==
  IF ~FernetDecryptOk(k, c)
  THEN [status |-> "str", layers |-> <<>>, keyid |-> NoKey, chars |-> <<>>]
  ELSE DecodeStep(FernetDecrypt(k, c))

decrypt(k, c) ==
  IF ~FernetDecryptOk(k, c)
  THEN [status |-> "InvalidToken", layers |-> <<>>, keyid |-> NoKey, chars |-> <<>>]
  ELSE DecodeStep(FernetDecrypt(k, c))

\* The bytes a str stands for (what f.write(str) puts in a UTF-8 text file).
StrBytes(r) == [layers |-> r.layers, keyid |-> r.keyid, data |-> Utf8Encode(r.chars)]

NoResult == [status |-> "none", layers |-> <<>>, keyid |-> NoKey, chars |-> <<>>]

\* -------------------------------------------------------------- variables
VARIABLES
  disk,     \* existing files: path -> content
  mpc,      \* per process: position in EncryptionManager.__init__
  key,      \* per process: self.key (NoKey before it is set)
  loads,    \* per process: executions of _load_or_create_key
  mem,      \* last in-memory encrypt(): [proc, plain, token]
  res,      \* last in-memory decrypt(): [proc, input, out]
  fileOps,  \* calls on files made so far
  lastOp,   \* the last encrypt_file / decrypt_file: [op, proc, inp, out, ...]
  ex,       \* the export_encrypted call in progress or just returned
  call,     \* the generate_note / generate_note_stream call in progress
            \* (lines: the lines iter_lines() has yielded so far)
  prev,     \* cause and result of the call completed before this one
  fn,       \* a call of a function of its arguments alone: [op, arg, done, out]
  db,       \* patients.db: the rows of patients and clinical_notes
  dash,     \* the dashboard's patients tab: tree rows, selection, current_patient
  gen,      \* the dashboard's Generate button, progress bar and worker threads
  stt       \* the recorder: SpeechToText and the dashboard's record button

vars == <<disk, mpc, key, loads, mem, res, fileOps, lastOp, ex, call, prev, fn,
          db, dash, gen, stt>>
appVars == <<db, dash, gen, stt>>
encVars == <<disk, mpc, key, loads>>
memVars == <<mem, res>>
fileVars == <<fileOps, lastOp>>
llmVars == <<call, prev>>
docVars == <<fn>>

Exists(p) == p \in DOMAIN disk
WriteFile(d, p, c) == (p :> c) @@ d

NoMem == [proc |-> 0, plain |-> Plain(<<>>), token |-> Plain(<<>>)]
NoRes == [proc |-> 0, input |-> Plain(<<>>), out |-> NoResult]
None == <<>>        \* Python's None where a path or a text is expected
NoExport == [pc |-> "idle", proc |-> 0, fmt |-> "", temp |-> None, enc |-> None,
             steps |-> <<>>, created |-> {}, cause |-> "", result |-> None]
NoText == [kind |-> "None", text |-> <<>>]
Str(t) == [kind |-> "str", text |-> t]
NoCall == [pc |-> "idle", mode |-> "", callback |-> FALSE, net |-> <<>>,
           probe |-> "", cause |-> "", result |-> NoText,
           recv |-> 0, lines |-> <<>>, delivered |-> <<>>, acc |-> <<>>]
NoPrev == [valid |-> FALSE, mode |-> "", cause |-> "", result |-> NoText]
NoFn == [op |-> "none", arg |-> <<>>, done |-> TRUE, out |-> <<>>]
\* An empty database; ids are AUTOINCREMENT: never used again.
NoDb == [patients |-> {}, notes |-> {}, last_patient |-> 0, last_note |-> 0]
\* No row shown or selected; self.current_patient = None.
NoDash == [tree |-> {}, selected |-> 0, current_patient |-> 0]
\* The Generate button enabled, the progress bar at rest, no worker thread,
\* self.generated_note = "".
NoGen == [btn |-> "normal", progress |-> FALSE, runs |-> 0, workers |-> <<>>,
          generated_note |-> <<>>]
\* SpeechToText.__init__ and DashboardWindow.is_recording (ui); no thread yet
NoStt == [is_recording |-> FALSE, recorded_audio |-> 0, ui |-> FALSE,
          toggles |-> 0, workers |-> <<>>, stoppers |-> <<>>]
NoOp == [op |-> "none", proc |-> 0, inp |-> <<>>, out |-> <<>>, dflt |-> FALSE,
         status |-> "none"]

Init ==
  /\ \E b \in {<<65>>, <<195, 169>>, <<195>>} : disk = (UserDoc :> Plain(b))
  /\ mpc = [p \in Procs |-> "start"]
  /\ key = [p \in Procs |-> NoKey]
  /\ loads = [p \in Procs |-> 0]
  /\ mem = NoMem
  /\ res = NoRes
  /\ fileOps = 0
  /\ lastOp = NoOp
  /\ ex = NoExport
  /\ call = NoCall
  /\ prev = NoPrev
  /\ db = NoDb
  /\ dash = NoDash
  /\ gen = NoGen
  /\ stt = NoStt
  /\ fn = NoFn

\* ------------------------------------------------- EncryptionManager.__init__
\* main.py constructs the manager once, in ClinicalNotesApp.__init__.
\* a manager constructed again on later use
CanConstruct_again(p) == mpc[p] \in {"start", "ready"}

CanConstruct(p) == mpc[p] = "start"

\* _load_or_create_key: if self.key_path.exists()
KeyCheck(p) ==
  /\ CanConstruct(p)
  /\ mpc' = [mpc EXCEPT ![p] = IF Exists(KeyPath) THEN "read" ELSE "create"]
  /\ loads' = [loads EXCEPT ![p] = @ + 1]
  /\ UNCHANGED <<appVars, docVars, disk, key, memVars, fileVars, ex, llmVars>>

\* open(key_path, 'rb').read(), then Fernet(self.key)
KeyRead(p) ==
  /\ mpc[p] = "read"
  /\ IF ValidKey(disk[KeyPath])
     THEN /\ key' = [key EXCEPT ![p] = disk[KeyPath].keyid]
          /\ mpc' = [mpc EXCEPT ![p] = "ready"]
     ELSE /\ key' = key
          /\ mpc' = [mpc EXCEPT ![p] = "failed"]
  /\ UNCHANGED <<appVars, docVars, disk, loads, memVars, fileVars, ex, llmVars>>

\* key = Fernet.generate_key(); mkdir; open(key_path, 'wb') truncates
KeyOpen(p) ==
  /\ mpc[p] = "create"
  /\ disk' = WriteFile(disk, KeyPath, Plain(<<>>))
  /\ mpc' = [mpc EXCEPT ![p] = "write"]
  /\ UNCHANGED <<appVars, docVars, key, loads, memVars, fileVars, ex, llmVars>>

\* f.write(key); chmod; return key; Fernet(self.key)
KeyWrite(p) ==
  /\ mpc[p] = "write"
  /\ disk' = WriteFile(disk, KeyPath, KeyText(generate_key(p)))
  /\ key' = [key EXCEPT ![p] = generate_key(p)]
  /\ mpc' = [mpc EXCEPT ![p] = "ready"]
  /\ UNCHANGED <<appVars, docVars, loads, memVars, fileVars, ex, llmVars>>

Construct(p) == KeyCheck(p) \/ KeyRead(p) \/ KeyOpen(p) \/ KeyWrite(p)

\* ------------------------------------------------------ encrypt / decrypt
EncryptCall(p, b) ==
  /\ mpc[p] = "ready"
  /\ mem' = [proc |-> p, plain |-> Plain(b), token |-> encrypt(key[p], Plain(b))]
  /\ UNCHANGED <<appVars, docVars, encVars, res, fileVars, ex, llmVars>>

\* decrypt() of the last token, of an altered copy of it, or of the
\* plaintext itself (input that is not a token).
DecryptInputs == {mem.token, Tampered(mem.token), mem.plain}

DecryptCall(q, c) ==
  /\ mpc[q] = "ready"
  /\ mem.proc # 0
  /\ res' = [proc |-> q, input |-> c, out |-> decrypt(key[q], c)]
  /\ UNCHANGED <<appVars, docVars, encVars, mem, fileVars, ex, llmVars>>

NextMem ==
  \/ \E p \in Procs : Construct(p)
  \/ \E p \in Procs, b \in Buffers : EncryptCall(p, b)
  \/ \E q \in Procs, c \in DecryptInputs : DecryptCall(q, c)

SpecMem == Init /\ [][NextMem]_vars

\* ------------------------------------------- encrypt_file / decrypt_file
Default == <<>>     \* output_path=None

\* Path(str(input_path) + '.enc')
EncDefaultPath(inp) == inp \o <<".enc">>

\* Path(str(input_path).replace('.enc', ''))
IsNotEncAtom(a) == a # ".enc"
DecDefaultPath(inp) == SelectSeq(inp, IsNotEncAtom)

encrypt_file(p, inp, outArg) ==
  LET out == IF outArg = Default THEN EncDefaultPath(inp) ELSE outArg
  IN /\ mpc[p] = "ready"
     /\ fileOps < MaxFileOps
     /\ Exists(inp)
     /\ disk' = WriteFile(disk, out, encrypt(key[p], disk[inp]))
     /\ fileOps' = fileOps + 1
     /\ lastOp' = [op |-> "encrypt_file", proc |-> p, inp |-> inp, out |-> out,
                   dflt |-> (outArg = Default), status |-> "ok"]
     /\ UNCHANGED <<appVars, docVars, mpc, key, loads, memVars, ex, llmVars>>

\* decrypt() raises before open(output_path, 'w'); open('') raises.
decrypt_file(q, inp, outArg) ==
  LET out == IF outArg = Default THEN DecDefaultPath(inp) ELSE outArg
      r == decrypt(key[q], disk[inp])
  IN /\ mpc[q] = "ready"
     /\ fileOps < MaxFileOps
     /\ Exists(inp)
     /\ IF r.status = "str" /\ out # <<>>
        THEN disk' = WriteFile(disk, out, StrBytes(r))
        ELSE disk' = disk
     /\ fileOps' = fileOps + 1
     /\ lastOp' = [op |-> "decrypt_file", proc |-> q, inp |-> inp, out |-> out,
                   dflt |-> (outArg = Default),
                   status |-> IF r.status = "str" /\ out = <<>>
                              THEN "FileNotFoundError" ELSE r.status]
     /\ UNCHANGED <<appVars, docVars, mpc, key, loads, memVars, ex, llmVars>>

\* decrypt() called on the bytes of a file, or on an altered copy of them.
DecryptBytes(q, inp, altered) ==
  LET c == IF altered THEN Tampered(disk[inp]) ELSE disk[inp]
  IN /\ mpc[q] = "ready"
     /\ fileOps < MaxFileOps
     /\ Exists(inp)
     /\ res' = [proc |-> q, input |-> c, out |-> decrypt(key[q], c)]
     /\ fileOps' = fileOps + 1
     /\ UNCHANGED <<appVars, docVars, encVars, mem, lastOp, ex, llmVars>>

NextFile ==
  \/ \E p \in Procs : Construct(p)
  \/ \E q \in Procs, inp \in DOMAIN disk, altered \in BOOLEAN :
        DecryptBytes(q, inp, altered)
  \/ \E p \in Procs, inp \in DOMAIN disk, o \in {Default, ExplicitOut} :
        encrypt_file(p, inp, o)
  \/ \E q \in Procs, inp \in DOMAIN disk, o \in {Default, ExplicitOut} :
        decrypt_file(q, inp, o)

SpecFile == Init /\ [][NextFile]_vars


\* ------------------------------------------ ExportManager.export_encrypted
Formats == {"pdf", "docx", "txt"}
OutPaths == {<<"note">>, <<"note", ".txt">>}

IsDirAtom(a) == a \in {"data/"}
IsSuffixAtom(a) == a \in {".enc", ".pdf", ".docx", ".txt", ".key"}

\* Path(output_path).with_suffix(f'.{format}')
Dot(fmt) == CASE fmt = "pdf" -> ".pdf" [] fmt = "docx" -> ".docx" [] OTHER -> ".txt"
with_suffix(p, sfx) ==
  IF Len(p) >= 2 /\ IsSuffixAtom(p[Len(p)]) /\ ~IsDirAtom(p[Len(p) - 1])
  THEN SubSeq(p, 1, Len(p) - 1) \o <<sfx>>
  ELSE p \o <<sfx>>

\* A rendered PDF / DOCX is binary (not valid UTF-8); a save that fails
\* after the output file was opened leaves a prefix of it.
Rendered == Plain(<<65, 195>>)
Partial == Plain(<<65>>)

\* the unlink left out
RemoveFile_kept(d, p) == d

RemoveFile(d, p) == [q \in (DOMAIN d) \ {p} |-> d[q]]

\* temp_path = ...; an unknown format returns None before anything is written
ExportBegin(p, outp, fmt) ==
  /\ ex.pc \in {"idle", "done"}
  /\ mpc[p] = "ready"
  /\ ex' = [pc |-> IF fmt \in {"pdf", "docx"} THEN "render" ELSE "done",
            proc |-> p, fmt |-> fmt, temp |-> with_suffix(outp, Dot(fmt)),
            enc |-> None, steps |-> <<>>, created |-> {},
            cause |-> IF fmt \in {"pdf", "docx"} THEN "" ELSE "format",
            result |-> None]
  /\ UNCHANGED <<appVars, docVars, encVars, memVars, fileVars, llmVars>>

\* success = self.export_to_pdf / export_to_docx(content, temp_path);
\* if not success: return None
RenderOutcomes == {"saved", "failed", "failed_after_open"}
ExportRender(o) ==
  /\ ex.pc = "render"
  /\ disk' = CASE o = "saved" -> WriteFile(disk, ex.temp, Rendered)
               [] o = "failed" -> disk
               [] o = "failed_after_open" -> WriteFile(disk, ex.temp, Partial)
  /\ ex' = [ex EXCEPT !.pc = IF o = "saved" THEN "encrypt" ELSE "done",
                      !.steps = Append(@, "render"),
                      !.created = IF o = "failed" THEN @ ELSE @ \cup {ex.temp},
                      !.cause = IF o = "saved" THEN "" ELSE "render"]
  /\ UNCHANGED <<appVars, docVars, mpc, key, loads, memVars, fileVars, llmVars>>

\* encrypted_path = encryption_manager.encrypt_file(temp_path); an
\* exception (the output cannot be opened or written) goes to the except
\* clause, which returns None.
EncryptOutcomes == {"written", "raised"}
ExportEncrypt(o) ==
  /\ ex.pc = "encrypt"
  /\ o = "written" => Exists(ex.temp)
  /\ disk' = IF o = "written"
             THEN WriteFile(disk, EncDefaultPath(ex.temp),
                            encrypt(key[ex.proc], disk[ex.temp]))
             ELSE disk
  /\ ex' = [ex EXCEPT !.pc = IF o = "written" THEN "unlink" ELSE "done",
                      !.steps = Append(@, "encrypt"),
                      !.enc = IF o = "written" THEN EncDefaultPath(ex.temp) ELSE @,
                      !.created = IF o = "written"
                                  THEN @ \cup {EncDefaultPath(ex.temp)} ELSE @,
                      !.cause = IF o = "written" THEN "" ELSE "encrypt"]
  /\ UNCHANGED <<appVars, docVars, mpc, key, loads, memVars, fileVars, llmVars>>

\* if temp_path.exists(): temp_path.unlink(); return encrypted_path
UnlinkOutcomes == {"removed", "raised"}
ExportUnlink(o) ==
  /\ ex.pc = "unlink"
  /\ o = "raised" => Exists(ex.temp)
  /\ disk' = IF o = "removed" THEN RemoveFile(disk, ex.temp) ELSE disk
  /\ ex' = [ex EXCEPT !.pc = "done",
                      !.steps = Append(@, "unlink"),
                      !.cause = IF o = "removed" THEN "" ELSE "unlink",
                      !.result = IF o = "removed" THEN ex.enc ELSE None]
  /\ UNCHANGED <<appVars, docVars, mpc, key, loads, memVars, fileVars, llmVars>>

NextExport ==
  \/ \E p \in Procs : Construct(p)
  \/ \E p \in Procs, outp \in OutPaths, fmt \in Formats : ExportBegin(p, outp, fmt)
  \/ \E o \in RenderOutcomes : ExportRender(o)
  \/ \E o \in EncryptOutcomes : ExportEncrypt(o)
  \/ \E o \in UnlinkOutcomes : ExportUnlink(o)

SpecExport == Init /\ [][NextExport]_vars

\* The same calls made where an earlier plain export of the note
\* (export_to_pdf to "note.pdf") is still on disk.
PriorExport == <<"note", ".pdf">>
InitPrior ==
  /\ disk = (UserDoc :> Plain(<<65>>)) @@ (PriorExport :> Plain(<<195, 169>>))
  /\ mpc = [p \in Procs |-> "start"]
  /\ key = [p \in Procs |-> NoKey]
  /\ loads = [p \in Procs |-> 0]
  /\ mem = NoMem
  /\ res = NoRes
  /\ fileOps = 0
  /\ lastOp = NoOp
  /\ ex = NoExport
  /\ call = NoCall
  /\ prev = NoPrev
  /\ db = NoDb
  /\ dash = NoDash
  /\ gen = NoGen
  /\ stt = NoStt
  /\ fn = NoFn

SpecExportPrior == InitPrior /\ [][NextExport]_vars


\* ------------------------------------------------------------ LLMProcessor
\* str.strip(): blanks and line breaks are removed at both ends
Whitespace == {" ", "\n"}
RECURSIVE lstrip(_)
lstrip(t) == IF t # <<>> /\ t[1] \in Whitespace THEN lstrip(Tail(t)) ELSE t
RECURSIVE rstrip(_)
rstrip(t) ==
  IF t # <<>> /\ t[Len(t)] \in Whitespace
  THEN rstrip(SubSeq(t, 1, Len(t) - 1)) ELSE t
strip(t) == rstrip(lstrip(t))

\* A reply body (or one line of a streamed reply): not JSON, JSON that is
\* not an object, or an object whose `response` is absent, null or a text.
Body(json, field, text) == [json |-> json, field |-> field, text |-> text]
BodiesOver(T) ==
  {Body("invalid", "", <<>>), Body("array", "", <<>>),
   Body("object", "absent", <<>>), Body("object", "null", <<>>)}
  \cup {Body("object", "str", t) : t \in T}
Bodies == BodiesOver(Texts)
EmptyLine == Body("empty", "", <<>>)
Lines == BodiesOver(Fragments) \cup {EmptyLine}

\* generate_note / generate_note_stream are entered; nothing is sent yet.
Entered(mode, cb) ==
  /\ call.pc \in {"idle", "done"}
  /\ call' = [NoCall EXCEPT !.pc = "probe", !.mode = mode, !.callback = cb]
  /\ prev' = IF call.pc = "done"
             THEN [valid |-> TRUE, mode |-> call.mode, cause |-> call.cause,
                   result |-> call.result]
             ELSE prev

GenStart(mode, cb) ==
  /\ Entered(mode, cb)
  /\ UNCHANGED <<appVars, docVars, encVars, memVars, fileVars, ex>>

\* check_connection(): GET /api/tags, timeout 5; True only for status 200,
\* False for any other status and for any exception.
ProbeOutcomes == {"200", "503", "error", "timeout"}
\* any HTTP reply taken as success
check_connection_any_status(o) == o \in {"200", "503"}

\* the probe's answer ignored
check_connection_never(o) == FALSE

check_connection(o) == o = "200"

\* if not self.check_connection(): return None
Probe(o) ==
  /\ call.pc = "probe"
  /\ call' = [call EXCEPT !.net = Append(@, "GET"),
                          !.probe = o,
                          !.pc = IF check_connection(o) THEN "post" ELSE "done",
                          !.cause = IF check_connection(o) THEN "" ELSE "probe"]
  /\ UNCHANGED <<appVars, docVars, encVars, memVars, fileVars, ex, prev>>

\* result.get('response', '').strip() of the parsed reply; None when
\* response.json() raises or the value has no .get / no .strip.
\* result['response'] in place of result.get('response', '')
OneShotResult_strict(b) ==
  IF b.json = "object" /\ b.field = "str" THEN Str(strip(b.text)) ELSE NoText

OneShotResult(b) ==
  IF b.json = "object" /\ b.field = "absent" THEN Str(<<>>)
  ELSE IF b.json = "object" /\ b.field = "str" THEN Str(strip(b.text))
  ELSE NoText

BodyCause(b) ==
  IF b.json = "invalid" THEN "unparseable"
  ELSE IF b.json = "array" THEN "not_object"
  ELSE IF b.field = "absent" THEN "no_field"
  ELSE IF b.field = "null" THEN "null_field"
  ELSE ""

\* requests.post(..., timeout=120) of generate_note and what follows it.
PostFailures == {"timeout", "connection_error", "status_500"}
\* the request sent again after a failure
PostFails_retried(o) ==
  /\ call.pc = "post"
  /\ call' = [call EXCEPT !.net = Append(@, "POST"), !.cause = o]
  /\ UNCHANGED <<appVars, docVars, encVars, memVars, fileVars, ex, prev>>

PostFails(o) ==
  /\ call.pc = "post"
  /\ call' = [call EXCEPT !.net = Append(@, "POST"), !.pc = "done",
                          !.cause = o, !.result = NoText]
  /\ UNCHANGED <<appVars, docVars, encVars, memVars, fileVars, ex, prev>>

PostOneShot(b) ==
  /\ call.pc = "post"
  /\ call.mode = "oneshot"
  /\ call' = [call EXCEPT !.net = Append(@, "POST"), !.pc = "done",
                          !.cause = BodyCause(b), !.result = OneShotResult(b)]
  /\ UNCHANGED <<appVars, docVars, encVars, memVars, fileVars, ex, prev>>

\* generate_note_stream: status 200, the loop over iter_lines() starts.
PostStream ==
  /\ call.pc = "post"
  /\ call.mode = "stream"
  /\ call' = [call EXCEPT !.net = Append(@, "POST"), !.pc = "read"]
  /\ UNCHANGED <<appVars, docVars, encVars, memVars, fileVars, ex, prev>>

\* One iteration of the loop: an empty line and a line json.loads rejects
\* are skipped; chunk.get on a non-object and += on a non-text raise
\* something other than JSONDecodeError, which ends the call with None.
LineFatal(l) == l.json = "array" \/ (l.json = "object" /\ l.field = "null")
LineText(l) == IF l.field = "str" THEN l.text ELSE <<>>
ReadLine(l) ==
  /\ call.pc = "read"
  /\ call.recv < MaxLines
  /\ call' =
       IF l.json \in {"empty", "invalid"}
       THEN [call EXCEPT !.recv = @ + 1, !.lines = Append(@, l)]
       ELSE IF LineFatal(l)
       THEN [call EXCEPT !.recv = @ + 1, !.lines = Append(@, l), !.pc = "done",
                         !.cause = BodyCause(l), !.result = NoText]
       ELSE [call EXCEPT !.recv = @ + 1, !.lines = Append(@, l),
                         !.acc = @ \o LineText(l),
                         !.delivered = IF call.callback
                                       THEN Append(@, LineText(l)) ELSE @]
  /\ UNCHANGED <<appVars, docVars, encVars, memVars, fileVars, ex, prev>>

\* iter_lines() raises (the connection drops): except Exception, None.
StreamBreaks ==
  /\ call.pc = "read"
  /\ call' = [call EXCEPT !.pc = "done", !.cause = "connection_error",
                          !.result = NoText]
  /\ UNCHANGED <<appVars, docVars, encVars, memVars, fileVars, ex, prev>>

\* the stream ends: return full_response.strip()
StreamEnds ==
  /\ call.pc = "read"
  /\ call' = [call EXCEPT !.pc = "done", !.result = Str(strip(call.acc))]
  /\ UNCHANGED <<appVars, docVars, encVars, memVars, fileVars, ex, prev>>

NextLLM ==
  \/ \E mode \in {"oneshot", "stream"}, cb \in BOOLEAN : GenStart(mode, cb)
  \/ \E o \in ProbeOutcomes : Probe(o)
  \/ \E o \in PostFailures : PostFails(o)
  \/ \E b \in Bodies : PostOneShot(b)
  \/ PostStream
  \/ \E l \in Lines : ReadLine(l)
  \/ StreamBreaks
  \/ StreamEnds

SpecLLM == Init /\ [][NextLLM]_vars

\* ============================================ functions of their arguments
\* The prompt builder, the note formatter and the ICD-10 index keep no
\* state between calls.  A call is drawn with its arguments at the start
\* and one step applies the function.
Pending(op, arg) == [op |-> op, arg |-> arg, done |-> FALSE, out |-> <<>>]

\* s contains m as a contiguous run (Python's `m in s`)
Contains(s, m) ==
  \E i \in 1..(Len(s) - Len(m) + 1) : SubSeq(s, i, i + Len(m) - 1) = m

\* ------------------------------------------------------------ prompt builder
\* A template is a sequence of atoms; its string is their concatenation.
\* "{transcription}" is the atom "{transcript" followed by the atom "ion}",
\* "{transcript}" is "{transcript" followed by "}"; no other concatenation
\* of atoms contains either string.
MaxTemplate == 4     \* longest prompt template, in atoms
TemplateAtoms == {"{transcript", "ion}", "}", "a"}
Templates == {NoText} \cup {Str(t) : t \in SeqsUpTo(TemplateAtoms, MaxTemplate)}
Transcripts == {<<"p">>, <<"p", "q">>, <<"{transcript", "ion}">>}
NoteTypes == {"SOAP", "soap", "Referral", "REFERRAL", "Discharge", "discharge",
              "Progress"}

\* str.upper() on the note types above
upper(s) ==
  CASE s \in {"SOAP", "soap"} -> "SOAP"
    [] s \in {"Referral", "REFERRAL"} -> "REFERRAL"
    [] s \in {"Discharge", "discharge"} -> "DISCHARGE"
    [] OTHER -> "PROGRESS"

\* str.replace(old, new, 1): the first occurrence only
replace_first(s, old, new) ==
  IF ~Contains(s, old) THEN s
  ELSE LET i == CHOOSE j \in 1..(Len(s) - Len(old) + 1) :
                  /\ SubSeq(s, j, j + Len(old) - 1) = old
                  /\ \A h \in 1..(j - 1) : SubSeq(s, h, h + Len(old) - 1) # old
       IN SubSeq(s, 1, i - 1) \o new \o SubSeq(s, i + Len(old), Len(s))

\* str.replace(old, new): every non-overlapping occurrence, left to right;
\* the text put in is not scanned again.
RECURSIVE replace(_, _, _)
replace(s, old, new) ==
  IF Len(s) < Len(old) THEN s
  ELSE IF SubSeq(s, 1, Len(old)) = old
  THEN new \o replace(SubSeq(s, Len(old) + 1, Len(s)), old, new)
  ELSE <<s[1]>> \o replace(Tail(s), old, new)

\* the marker generate_note substitutes
Marker == <<"{transcript", "ion}">>

\* _build_prompt: base instruction, the format instruction of the note
\* type (its section labels in order), the transcription, the directive.
format_instruction(note_type) ==
  CASE upper(note_type) = "SOAP" ->
         <<"Format the note as follows:", "Subjective:", "Objective:",
           "Assessment:", "ICD-10 Code:", "Plan:">>
    [] upper(note_type) = "REFERRAL" ->
         <<"Format the note as follows:", "Patient Information:",
           "Reason for Referral:", "Clinical History:", "Assessment:",
           "ICD-10 Code:", "Requested Action:">>
    [] upper(note_type) = "DISCHARGE" ->
         <<"Format the note as follows:", "Patient Summary:",
           "Admission Diagnosis:", "Hospital Course:", "Discharge Diagnosis:",
           "ICD-10 Code:", "Discharge Instructions:", "Follow-up:">>
    [] OTHER -> <<"Provide a clear, structured clinical note.">>

\* only the first line of the transcription is put into the prompt
build_prompt_first_line(transcription, note_type) ==
  <<"base_instruction">> \o format_instruction(note_type)
    \o <<"Patient Consultation:">> \o SubSeq(transcription, 1, 1)
    \o <<"Generate the clinical note now:">>

build_prompt(transcription, note_type) ==
  <<"base_instruction">> \o format_instruction(note_type)
    \o <<"Patient Consultation:">> \o transcription
    \o <<"Generate the clinical note now:">>

\* if template: template.replace("{transcription}", transcription)
\* else: self._build_prompt(transcription, note_type)
Truthy(template) == template.kind = "str" /\ template.text # <<>>
prompt(transcription, note_type, template) ==
  IF Truthy(template)
  THEN replace(template.text, Marker, transcription)
  ELSE build_prompt(transcription, note_type)

PromptCalls ==
  {Pending("generate_note",
           [transcription |-> t, note_type |-> n, template |-> tp]) :
     t \in Transcripts, n \in NoteTypes, tp \in Templates}

BuildPrompt ==
  /\ fn.op = "generate_note"
  /\ ~fn.done
  /\ fn' = [fn EXCEPT !.done = TRUE,
                      !.out = prompt(fn.arg.transcription, fn.arg.note_type,
                                     fn.arg.template)]
  /\ UNCHANGED <<appVars, encVars, memVars, fileVars, ex, llmVars>>

\* ------------------------------------------------------------ note formatter
\* A note is a sequence of atoms: a section label as written (in some
\* letter case), or other text.  str.lower() acts on each atom, and on
\* each character of a text given character by character.
MaxContent == 4      \* longest note handed to validate_note, in atoms
UpperLetters == <<"A","B","C","D","E","F","G","H","I","J","K","L","M","N","O","P","Q","R","S","T","U","V","W","X","Y","Z">>
LowerLetters == <<"a","b","c","d","e","f","g","h","i","j","k","l","m","n","o","p","q","r","s","t","u","v","w","x","y","z">>
lower(a) ==
  CASE (\E i \in 1..Len(UpperLetters) : UpperLetters[i] = a) ->
         LowerLetters[CHOOSE i \in 1..Len(UpperLetters) : UpperLetters[i] = a]
    [] a \in {"Subjective", "SUBJECTIVE"} -> "subjective"
    [] a \in {"Objective", "OBJECTIVE"} -> "objective"
    [] a \in {"Assessment", "ASSESSMENT"} -> "assessment"
    [] a \in {"Plan", "PLAN"} -> "plan"
    [] a \in {"Reason for Referral", "REASON FOR REFERRAL"} -> "reason for referral"
    [] a \in {"Clinical History", "CLINICAL HISTORY"} -> "clinical history"
    [] a \in {"Admission Diagnosis", "ADMISSION DIAGNOSIS"} -> "admission diagnosis"
    [] a \in {"Hospital Course", "HOSPITAL COURSE"} -> "hospital course"
    [] a \in {"Discharge Diagnosis", "DISCHARGE DIAGNOSIS"} -> "discharge diagnosis"
    [] OTHER -> a
lowerText(s) == [i \in 1..Len(s) |-> lower(s[i])]

\* the words a note of each type is drawn from
Vocabulary(note_type) ==
  CASE upper(note_type) = "REFERRAL" ->
         {"Reason for Referral", "clinical history", "ASSESSMENT", "x"}
    [] upper(note_type) = "DISCHARGE" ->
         {"admission diagnosis", "HOSPITAL COURSE", "Discharge Diagnosis", "x"}
    [] OTHER -> {"Subjective", "OBJECTIVE", "assessment", "Plan", "x"}

required_sections(note_type) ==
  CASE upper(note_type) = "SOAP" ->
         <<"Subjective", "Objective", "Assessment", "Plan">>
    [] upper(note_type) = "REFERRAL" ->
         <<"Reason for Referral", "Clinical History", "Assessment">>
    [] upper(note_type) = "DISCHARGE" ->
         <<"Admission Diagnosis", "Hospital Course", "Discharge Diagnosis">>
    [] OTHER -> <<>>

\* `section not in note_content`, without the two lower() calls
validate_note_case_sensitive(note_content, note_type) ==
  LET missing_sections ==
        SelectSeq(required_sections(note_type),
                  LAMBDA section : ~Contains(note_content, <<section>>))
  IN [valid |-> Len(missing_sections) = 0, missing |-> missing_sections]

\* validate_note: (is_valid, missing_sections); a note type that is none of
\* the three has no required sections.
validate_note(note_content, note_type) ==
  LET missing_sections ==
        SelectSeq(required_sections(note_type),
                  LAMBDA section :
                    ~Contains(lowerText(note_content), <<lower(section)>>))
  IN [valid |-> Len(missing_sections) = 0, missing |-> missing_sections]

ValidateCalls(note_type) ==
  {Pending("validate_note", [note_content |-> c, note_type |-> note_type]) :
     c \in SeqsUpTo(Vocabulary(note_type), MaxContent)}

Validate ==
  /\ fn.op = "validate_note"
  /\ ~fn.done
  /\ fn' = [fn EXCEPT !.done = TRUE,
                      !.out = validate_note(fn.arg.note_content, fn.arg.note_type)]
  /\ UNCHANGED <<appVars, encVars, memVars, fileVars, ex, llmVars>>

\* clean_note: re.sub(r'\n\s*\n\s*\n', '\n\n', note_content), then strip().
\* A note here is a sequence of characters: a letter, a blank, a line break.
MaxNote == 7         \* longest note handed to clean_note, in characters
NoteChars == {"a", " ", "\n"}
Notes == SeqsUpTo(NoteChars, MaxNote)

\* s[i..e] matches \n\s*\n\s*\n
MatchesAt(s, i, e) ==
  /\ s[i] = "\n"
  /\ s[e] = "\n"
  /\ \A j \in i..e : s[j] \in Whitespace
  /\ \E j \in (i + 1)..(e - 1) : s[j] = "\n"
MatchEnds(s, i) == {e \in (i + 2)..Len(s) : MatchesAt(s, i, e)}

\* the quantifiers made lazy: \n\s*?\n\s*?\n takes the shortest match
MatchEnd_lazy(s, i) ==
  IF MatchEnds(s, i) = {} THEN 0
  ELSE CHOOSE e \in MatchEnds(s, i) : \A f \in MatchEnds(s, i) : e <= f

\* where the match starting at i ends (0: no match at i); both \s* are
\* greedy, so the match runs to the last line break of the blank run
MatchEnd(s, i) ==
  IF MatchEnds(s, i) = {} THEN 0
  ELSE CHOOSE e \in MatchEnds(s, i) : \A f \in MatchEnds(s, i) : e >= f

\* re.sub from position i on: matches are found left to right and do not
\* overlap
RECURSIVE sub(_, _)
sub(s, i) ==
  IF i > Len(s) THEN <<>>
  ELSE IF MatchEnd(s, i) # 0
  THEN <<"\n", "\n">> \o sub(s, MatchEnd(s, i) + 1)
  ELSE <<s[i]>> \o sub(s, i + 1)

clean_note(note_content) == strip(sub(note_content, 1))

CleanCalls == {Pending("clean_note", [note_content |-> x]) : x \in Notes}

\* clean_note applied to the note, and then to what it returned
Clean ==
  /\ fn.op = "clean_note"
  /\ Len(fn.out) < 2
  /\ fn' = [fn EXCEPT !.done = TRUE,
                      !.out = Append(@, clean_note(IF fn.out = <<>>
                                                   THEN fn.arg.note_content
                                                   ELSE fn.out[Len(fn.out)]))]
  /\ UNCHANGED <<appVars, encVars, memVars, fileVars, ex, llmVars>>

\* ------------------------------------------------------------- ICD-10 index
\* Texts, descriptions and keywords are sequences of characters.
\* self.icd_codes, in the order the dict literal lists its entries:
\* <<code, description>>.
icd_codes == <<
  <<"R51", <<"H", "e", "a", "d", "a", "c", "h", "e">>>>,
  <<"R50.9", <<"F", "e", "v", "e", "r", ",", " ", "u", "n", "s", "p", "e", "c", "i", "f", "i", "e", "d">>>>,
  <<"R05", <<"C", "o", "u", "g", "h">>>>,
  <<"R06.02", <<"S", "h", "o", "r", "t", "n", "e", "s", "s", " ", "o", "f", " ", "b", "r", "e", "a", "t", "h">>>>,
  <<"R53.83", <<"F", "a", "t", "i", "g", "u", "e">>>>,
  <<"R11.0", <<"N", "a", "u", "s", "e", "a">>>>,
  <<"R11.2", <<"N", "a", "u", "s", "e", "a", " ", "w", "i", "t", "h", " ", "v", "o", "m", "i", "t", "i", "n", "g">>>>,
  <<"R10.9", <<"A", "b", "d", "o", "m", "i", "n", "a", "l", " ", "p", "a", "i", "n", ",", " ", "u", "n", "s", "p", "e", "c", "i", "f", "i", "e", "d">>>>,
  <<"R07.9", <<"C", "h", "e", "s", "t", " ", "p", "a", "i", "n", ",", " ", "u", "n", "s", "p", "e", "c", "i", "f", "i", "e", "d">>>>,
  <<"R42", <<"D", "i", "z", "z", "i", "n", "e", "s", "s", " ", "a", "n", "d", " ", "g", "i", "d", "d", "i", "n", "e", "s", "s">>>>,
  <<"R51.9", <<"H", "e", "a", "d", "a", "c", "h", "e", ",", " ", "u", "n", "s", "p", "e", "c", "i", "f", "i", "e", "d">>>>,
  <<"R68.83", <<"C", "h", "i", "l", "l", "s">>>>,
  <<"I10", <<"E", "s", "s", "e", "n", "t", "i", "a", "l", " ", "(", "p", "r", "i", "m", "a", "r", "y", ")", " ", "h", "y", "p", "e", "r", "t", "e", "n", "s", "i", "o", "n">>>>,
  <<"I11.0", <<"H", "y", "p", "e", "r", "t", "e", "n", "s", "i", "v", "e", " ", "h", "e", "a", "r", "t", " ", "d", "i", "s", "e", "a", "s", "e", " ", "w", "i", "t", "h", " ", "h", "e", "a", "r", "t", " ", "f", "a", "i", "l", "u", "r", "e">>>>,
  <<"I25.10", <<"A", "t", "h", "e", "r", "o", "s", "c", "l", "e", "r", "o", "t", "i", "c", " ", "h", "e", "a", "r", "t", " ", "d", "i", "s", "e", "a", "s", "e">>>>,
  <<"I48.91", <<"A", "t", "r", "i", "a", "l", " ", "f", "i", "b", "r", "i", "l", "l", "a", "t", "i", "o", "n">>>>,
  <<"I50.9", <<"H", "e", "a", "r", "t", " ", "f", "a", "i", "l", "u", "r", "e", ",", " ", "u", "n", "s", "p", "e", "c", "i", "f", "i", "e", "d">>>>,
  <<"I21.9", <<"A", "c", "u", "t", "e", " ", "m", "y", "o", "c", "a", "r", "d", "i", "a", "l", " ", "i", "n", "f", "a", "r", "c", "t", "i", "o", "n">>>>,
  <<"I63.9", <<"C", "e", "r", "e", "b", "r", "a", "l", " ", "i", "n", "f", "a", "r", "c", "t", "i", "o", "n", ",", " ", "u", "n", "s", "p", "e", "c", "i", "f", "i", "e", "d">>>>,
  <<"J06.9", <<"U", "p", "p", "e", "r", " ", "r", "e", "s", "p", "i", "r", "a", "t", "o", "r", "y", " ", "i", "n", "f", "e", "c", "t", "i", "o", "n">>>>,
  <<"J02.9", <<"A", "c", "u", "t", "e", " ", "p", "h", "a", "r", "y", "n", "g", "i", "t", "i", "s">>>>,
  <<"J20.9", <<"A", "c", "u", "t", "e", " ", "b", "r", "o", "n", "c", "h", "i", "t", "i", "s">>>>,
  <<"J18.9", <<"P", "n", "e", "u", "m", "o", "n", "i", "a", ",", " ", "u", "n", "s", "p", "e", "c", "i", "f", "i", "e", "d">>>>,
  <<"J45.909", <<"A", "s", "t", "h", "m", "a", ",", " ", "u", "n", "s", "p", "e", "c", "i", "f", "i", "e", "d">>>>,
  <<"J44.0", <<"C", "O", "P", "D", " ", "w", "i", "t", "h", " ", "a", "c", "u", "t", "e", " ", "l", "o", "w", "e", "r", " ", "r", "e", "s", "p", "i", "r", "a", "t", "o", "r", "y", " ", "i", "n", "f", "e", "c", "t", "i", "o", "n">>>>,
  <<"J44.1", <<"C", "O", "P", "D", " ", "w", "i", "t", "h", " ", "a", "c", "u", "t", "e", " ", "e", "x", "a", "c", "e", "r", "b", "a", "t", "i", "o", "n">>>>,
  <<"E11.9", <<"T", "y", "p", "e", " ", "2", " ", "d", "i", "a", "b", "e", "t", "e", "s", " ", "m", "e", "l", "l", "i", "t", "u", "s", " ", "w", "i", "t", "h", "o", "u", "t", " ", "c", "o", "m", "p", "l", "i", "c", "a", "t", "i", "o", "n", "s">>>>,
  <<"E11.65", <<"T", "y", "p", "e", " ", "2", " ", "d", "i", "a", "b", "e", "t", "e", "s", " ", "w", "i", "t", "h", " ", "h", "y", "p", "e", "r", "g", "l", "y", "c", "e", "m", "i", "a">>>>,
  <<"E78.5", <<"H", "y", "p", "e", "r", "l", "i", "p", "i", "d", "e", "m", "i", "a">>>>,
  <<"E66.9", <<"O", "b", "e", "s", "i", "t", "y", ",", " ", "u", "n", "s", "p", "e", "c", "i", "f", "i", "e", "d">>>>,
  <<"E03.9", <<"H", "y", "p", "o", "t", "h", "y", "r", "o", "i", "d", "i", "s", "m", ",", " ", "u", "n", "s", "p", "e", "c", "i", "f", "i", "e", "d">>>>,
  <<"E05.90", <<"H", "y", "p", "e", "r", "t", "h", "y", "r", "o", "i", "d", "i", "s", "m", ",", " ", "u", "n", "s", "p", "e", "c", "i", "f", "i", "e", "d">>>>,
  <<"K21.9", <<"G", "a", "s", "t", "r", "o", "-", "e", "s", "o", "p", "h", "a", "g", "e", "a", "l", " ", "r", "e", "f", "l", "u", "x", " ", "d", "i", "s", "e", "a", "s", "e">>>>,
  <<"K29.70", <<"G", "a", "s", "t", "r", "i", "t", "i", "s", ",", " ", "u", "n", "s", "p", "e", "c", "i", "f", "i", "e", "d">>>>,
  <<"K58.9", <<"I", "r", "r", "i", "t", "a", "b", "l", "e", " ", "b", "o", "w", "e", "l", " ", "s", "y", "n", "d", "r", "o", "m", "e">>>>,
  <<"K59.00", <<"C", "o", "n", "s", "t", "i", "p", "a", "t", "i", "o", "n", ",", " ", "u", "n", "s", "p", "e", "c", "i", "f", "i", "e", "d">>>>,
  <<"K52.9", <<"G", "a", "s", "t", "r", "o", "e", "n", "t", "e", "r", "i", "t", "i", "s", " ", "a", "n", "d", " ", "c", "o", "l", "i", "t", "i", "s">>>>,
  <<"M25.50", <<"P", "a", "i", "n", " ", "i", "n", " ", "j", "o", "i", "n", "t", ",", " ", "u", "n", "s", "p", "e", "c", "i", "f", "i", "e", "d">>>>,
  <<"M79.3", <<"P", "a", "n", "n", "i", "c", "u", "l", "i", "t", "i", "s", ",", " ", "u", "n", "s", "p", "e", "c", "i", "f", "i", "e", "d">>>>,
  <<"M54.5", <<"L", "o", "w", " ", "b", "a", "c", "k", " ", "p", "a", "i", "n">>>>,
  <<"M79.1", <<"M", "y", "a", "l", "g", "i", "a">>>>,
  <<"M25.561", <<"P", "a", "i", "n", " ", "i", "n", " ", "r", "i", "g", "h", "t", " ", "k", "n", "e", "e">>>>,
  <<"M25.562", <<"P", "a", "i", "n", " ", "i", "n", " ", "l", "e", "f", "t", " ", "k", "n", "e", "e">>>>,
  <<"F41.1", <<"G", "e", "n", "e", "r", "a", "l", "i", "z", "e", "d", " ", "a", "n", "x", "i", "e", "t", "y", " ", "d", "i", "s", "o", "r", "d", "e", "r">>>>,
  <<"F32.9", <<"M", "a", "j", "o", "r", " ", "d", "e", "p", "r", "e", "s", "s", "i", "v", "e", " ", "d", "i", "s", "o", "r", "d", "e", "r", ",", " ", "s", "i", "n", "g", "l", "e", " ", "e", "p", "i", "s", "o", "d", "e">>>>,
  <<"F33.1", <<"M", "a", "j", "o", "r", " ", "d", "e", "p", "r", "e", "s", "s", "i", "v", "e", " ", "d", "i", "s", "o", "r", "d", "e", "r", ",", " ", "r", "e", "c", "u", "r", "r", "e", "n", "t">>>>,
  <<"F41.9", <<"A", "n", "x", "i", "e", "t", "y", " ", "d", "i", "s", "o", "r", "d", "e", "r", ",", " ", "u", "n", "s", "p", "e", "c", "i", "f", "i", "e", "d">>>>,
  <<"F43.10", <<"P", "o", "s", "t", "-", "t", "r", "a", "u", "m", "a", "t", "i", "c", " ", "s", "t", "r", "e", "s", "s", " ", "d", "i", "s", "o", "r", "d", "e", "r">>>>,
  <<"G43.909", <<"M", "i", "g", "r", "a", "i", "n", "e", ",", " ", "u", "n", "s", "p", "e", "c", "i", "f", "i", "e", "d">>>>,
  <<"G89.29", <<"C", "h", "r", "o", "n", "i", "c", " ", "p", "a", "i", "n">>>>,
  <<"G47.00", <<"I", "n", "s", "o", "m", "n", "i", "a", ",", " ", "u", "n", "s", "p", "e", "c", "i", "f", "i", "e", "d">>>>,
  <<"B34.9", <<"V", "i", "r", "a", "l", " ", "i", "n", "f", "e", "c", "t", "i", "o", "n", ",", " ", "u", "n", "s", "p", "e", "c", "i", "f", "i", "e", "d">>>>,
  <<"A09", <<"I", "n", "f", "e", "c", "t", "i", "o", "u", "s", " ", "g", "a", "s", "t", "r", "o", "e", "n", "t", "e", "r", "i", "t", "i", "s">>>>,
  <<"J03.90", <<"A", "c", "u", "t", "e", " ", "t", "o", "n", "s", "i", "l", "l", "i", "t", "i", "s", ",", " ", "u", "n", "s", "p", "e", "c", "i", "f", "i", "e", "d">>>>,
  <<"L30.9", <<"D", "e", "r", "m", "a", "t", "i", "t", "i", "s", ",", " ", "u", "n", "s", "p", "e", "c", "i", "f", "i", "e", "d">>>>,
  <<"L50.9", <<"U", "r", "t", "i", "c", "a", "r", "i", "a", ",", " ", "u", "n", "s", "p", "e", "c", "i", "f", "i", "e", "d">>>>,
  <<"L70.0", <<"A", "c", "n", "e", " ", "v", "u", "l", "g", "a", "r", "i", "s">>>>,
  <<"N39.0", <<"U", "r", "i", "n", "a", "r", "y", " ", "t", "r", "a", "c", "t", " ", "i", "n", "f", "e", "c", "t", "i", "o", "n">>>>,
  <<"N18.3", <<"C", "h", "r", "o", "n", "i", "c", " ", "k", "i", "d", "n", "e", "y", " ", "d", "i", "s", "e", "a", "s", "e", ",", " ", "s", "t", "a", "g", "e", " ", "3">>>>,
  <<"N40.0", <<"B", "e", "n", "i", "g", "n", " ", "p", "r", "o", "s", "t", "a", "t", "i", "c", " ", "h", "y", "p", "e", "r", "p", "l", "a", "s", "i", "a">>>>,
  <<"Z00.00", <<"G", "e", "n", "e", "r", "a", "l", " ", "a", "d", "u", "l", "t", " ", "m", "e", "d", "i", "c", "a", "l", " ", "e", "x", "a", "m", "i", "n", "a", "t", "i", "o", "n">>>>,
  <<"Z23", <<"I", "m", "m", "u", "n", "i", "z", "a", "t", "i", "o", "n">>>>,
  <<"Z79.4", <<"L", "o", "n", "g", "-", "t", "e", "r", "m", " ", "u", "s", "e", " ", "o", "f", " ", "i", "n", "s", "u", "l", "i", "n">>>>,
  <<"Z79.899", <<"L", "o", "n", "g", "-", "t", "e", "r", "m", " ", "u", "s", "e", " ", "o", "f", " ", "o", "t", "h", "e", "r", " ", "m", "e", "d", "i", "c", "a", "t", "i", "o", "n", "s">>>>
>>

\* keyword_mapping of suggest_codes, in the order of the dict literal:
\* <<keyword, codes>>.
keyword_mapping == <<
  <<<<"h", "e", "a", "d", "a", "c", "h", "e">>, <<"R51", "G43.909">>>>,
  <<<<"f", "e", "v", "e", "r">>, <<"R50.9">>>>,
  <<<<"c", "o", "u", "g", "h">>, <<"R05", "J20.9">>>>,
  <<<<"d", "i", "a", "b", "e", "t", "e", "s">>, <<"E11.9", "E11.65">>>>,
  <<<<"h", "y", "p", "e", "r", "t", "e", "n", "s", "i", "o", "n">>, <<"I10">>>>,
  <<<<"p", "a", "i", "n">>, <<"M79.1", "G89.29">>>>,
  <<<<"c", "h", "e", "s", "t", " ", "p", "a", "i", "n">>, <<"R07.9">>>>,
  <<<<"b", "a", "c", "k", " ", "p", "a", "i", "n">>, <<"M54.5">>>>,
  <<<<"a", "n", "x", "i", "e", "t", "y">>, <<"F41.1", "F41.9">>>>,
  <<<<"d", "e", "p", "r", "e", "s", "s", "i", "o", "n">>, <<"F32.9", "F33.1">>>>,
  <<<<"a", "s", "t", "h", "m", "a">>, <<"J45.909">>>>,
  <<<<"p", "n", "e", "u", "m", "o", "n", "i", "a">>, <<"J18.9">>>>,
  <<<<"n", "a", "u", "s", "e", "a">>, <<"R11.0">>>>,
  <<<<"v", "o", "m", "i", "t", "i", "n", "g">>, <<"R11.2">>>>,
  <<<<"d", "i", "z", "z", "i", "n", "e", "s", "s">>, <<"R42">>>>,
  <<<<"f", "a", "t", "i", "g", "u", "e">>, <<"R53.83">>>>,
  <<<<"o", "b", "e", "s", "i", "t", "y">>, <<"E66.9">>>>,
  <<<<"i", "n", "f", "e", "c", "t", "i", "o", "n">>, <<"B34.9">>>>,
  <<<<"u", "t", "i">>, <<"N39.0">>>>,
  <<<<"g", "a", "s", "t", "r", "i", "t", "i", "s">>, <<"K29.70">>>>
>>

MaxPieces == 3       \* longest text or query, in pieces
RECURSIVE Flat(_)
Flat(ps) == IF ps = <<>> THEN <<>> ELSE ps[1] \o Flat(Tail(ps))
TextPieces ==
  {<<"H", "e", "a", "d", "a", "c", "h", "e">>, <<" ", "a", "n", "d", " ">>,
   <<"f", "e", "v", "e", "r">>, <<"c", "h", "e", "s", "t", " ">>,
   <<"p", "a", "i", "n">>, <<"r", "o">>, <<"u", "t", "i">>, <<"n", "e">>}
ClinicalTexts == {Flat(ps) : ps \in SeqsUpTo(TextPieces, MaxPieces)}

\* self.icd_codes[code] and `code in self.icd_codes`
InIndex(code) == \E i \in 1..Len(icd_codes) : icd_codes[i][1] = code
DescriptionOf(code) ==
  icd_codes[CHOOSE i \in 1..Len(icd_codes) : icd_codes[i][1] = code][2]

\* the codes of one keyword that are in the index, with their descriptions
RECURSIVE WithDescriptions(_)
WithDescriptions(codes) ==
  IF codes = <<>> THEN <<>>
  ELSE (IF InIndex(codes[1]) THEN << <<codes[1], DescriptionOf(codes[1])>> >>
        ELSE <<>>) \o WithDescriptions(Tail(codes))

\* for keyword, codes in keyword_mapping.items(): if keyword in text_lower
RECURSIVE Suggestions(_, _)
Suggestions(text_lower, k) ==
  IF k > Len(keyword_mapping) THEN <<>>
  ELSE (IF Contains(text_lower, keyword_mapping[k][1])
        THEN WithDescriptions(keyword_mapping[k][2]) ELSE <<>>)
       \o Suggestions(text_lower, k + 1)

\* "remove duplicates while preserving order"
RECURSIVE Unique(_, _)
Unique(items, seen) ==
  IF items = <<>> THEN <<>>
  ELSE IF items[1][1] \in seen THEN Unique(Tail(items), seen)
  ELSE <<items[1]>> \o Unique(Tail(items), seen \cup {items[1][1]})

\* `keyword in text` without text.lower()
suggest_codes_case_sensitive(text) == Unique(Suggestions(text, 1), {})

suggest_codes(text) == Unique(Suggestions(lowerText(text), 1), {})

SuggestCalls == {Pending("suggest_codes", [text |-> t]) : t \in ClinicalTexts}

Suggest ==
  /\ fn.op = "suggest_codes"
  /\ ~fn.done
  /\ fn' = [fn EXCEPT !.done = TRUE, !.out = suggest_codes(fn.arg.text)]
  /\ UNCHANGED <<appVars, encVars, memVars, fileVars, ex, llmVars>>

\* self.description_to_code = {v.lower(): k for k, v in icd_codes.items()}:
\* a key stands where it was first put and holds the code put last.
LowerDescriptions == [n \in 1..Len(icd_codes) |-> lowerText(icd_codes[n][2])]
FirstPlaces ==
  {n \in 1..Len(icd_codes) :
     \A m \in 1..(n - 1) : LowerDescriptions[m] # LowerDescriptions[n]}
LastPlace(k) ==
  CHOOSE n \in 1..Len(icd_codes) :
    /\ LowerDescriptions[n] = k
    /\ \A m \in (n + 1)..Len(icd_codes) : LowerDescriptions[m] # k
NthFirstPlace(j) ==
  CHOOSE n \in FirstPlaces : Cardinality({m \in FirstPlaces : m <= n}) = j
description_to_code ==
  [j \in 1..Cardinality(FirstPlaces) |->
     <<LowerDescriptions[NthFirstPlace(j)],
       icd_codes[LastPlace(LowerDescriptions[NthFirstPlace(j)])][1]>>]

QueryPieces ==
  {<<"H", "E", "A", "D", "a", "c", "h", "e">>,
   <<",", " ", "u", "n", "s", "p", "e", "c", "i", "f", "i", "e", "d">>,
   <<"F", "e", "v", "e", "r">>, <<"p", "a", "i", "n">>,
   <<"l", "o", "w", " ", "b", "a", "c", "k", " ">>, <<"z">>}
Queries == {Flat(ps) : ps \in SeqsUpTo(QueryPieces, MaxPieces)}

\* the partial match takes the first entry met, whichever entry it is asked of
PartialMatches(desc_lower) ==
  {i \in 1..Len(description_to_code) :
     \/ Contains(desc_lower, description_to_code[i][1])
     \/ Contains(description_to_code[i][1], desc_lower)}

\* the partial match is tried before the exact one
search_by_description_partial_first(description) ==
  LET desc_lower == lowerText(description)
      partial == PartialMatches(desc_lower)
  IN IF partial # {}
     THEN <<description_to_code[CHOOSE i \in partial :
                                  \A j \in partial : i <= j][2]>>
     ELSE None

\* search_by_description: <<code>>, or None
search_by_description(description) ==
  LET desc_lower == lowerText(description)
      exact == {i \in 1..Len(description_to_code) :
                  description_to_code[i][1] = desc_lower}
      partial == PartialMatches(desc_lower)
  IN IF exact # {} THEN <<description_to_code[CHOOSE i \in exact : TRUE][2]>>
     ELSE IF partial # {}
     THEN <<description_to_code[CHOOSE i \in partial :
                                  \A j \in partial : i <= j][2]>>
     ELSE None

SearchCalls == {Pending("search_by_description", [description |-> q]) : q \in Queries}

Search ==
  /\ fn.op = "search_by_description"
  /\ ~fn.done
  /\ fn' = [fn EXCEPT !.done = TRUE,
                      !.out = search_by_description(fn.arg.description)]
  /\ UNCHANGED <<appVars, encVars, memVars, fileVars, ex, llmVars>>

\* ------------------------------------------------- extract_icd_codes
\* Note texts are strings of characters built from a few pieces.
CodePieces ==
  {<<"I", "1", "0">>, <<" ", "R", "5", "1">>, <<" ", "I", "1", "0">>,
   <<".", "1", "2", "3", "4">>, <<"5">>, <<".">>, <<"a">>, <<"I">>}
CodeTexts == {Flat(ps) : ps \in SeqsUpTo(CodePieces, MaxPieces)}

Digits == {"0", "1", "2", "3", "4", "5", "6", "7", "8", "9"}
IsUpper(c) == \E i \in 1..Len(UpperLetters) : UpperLetters[i] = c
\* \w
IsWordChar(c) ==
  \/ IsUpper(c)
  \/ \E i \in 1..Len(LowerLetters) : LowerLetters[i] = c
  \/ c \in Digits
  \/ c = "_"
\* \b between s[i - 1] and s[i]; the ends of the string count as non-word
Boundary(s, i) ==
  (i > 1 /\ i - 1 <= Len(s) /\ IsWordChar(s[i - 1]))
    # (i >= 1 /\ i <= Len(s) /\ IsWordChar(s[i]))
\* \d{n} at position i
DigitsAt(s, i, n) == i + n - 1 <= Len(s) /\ \A j \in i..(i + n - 1) : s[j] \in Digits

\* the pattern without its leading \b
CodeEnd_unanchored(s, i) ==
  IF ~(i <= Len(s) /\ IsUpper(s[i]) /\ DigitsAt(s, i + 1, 2)) THEN 0
  ELSE LET withDot == {n \in 1..4 : /\ i + 3 <= Len(s)
                                     /\ s[i + 3] = "."
                                     /\ DigitsAt(s, i + 4, n)
                                     /\ Boundary(s, i + 4 + n)}
       IN IF withDot # {}
          THEN i + 4 + (CHOOSE n \in withDot : \A m \in withDot : m <= n)
          ELSE IF Boundary(s, i + 3) THEN i + 3 ELSE 0

\* r'\b[A-Z]\d{2}(?:\.\d{1,4})?\b' tried at position i: the position after
\* the match, or 0.  The optional group is greedy and is given up when no
\* boundary follows it.
CodeEnd(s, i) ==
  IF ~(Boundary(s, i) /\ i <= Len(s) /\ IsUpper(s[i]) /\ DigitsAt(s, i + 1, 2))
  THEN 0
  ELSE LET withDot == {n \in 1..4 : /\ i + 3 <= Len(s)
                                     /\ s[i + 3] = "."
                                     /\ DigitsAt(s, i + 4, n)
                                     /\ Boundary(s, i + 4 + n)}
       IN IF withDot # {}
          THEN i + 4 + (CHOOSE n \in withDot : \A m \in withDot : m <= n)
          ELSE IF Boundary(s, i + 3) THEN i + 3 ELSE 0

\* re.findall: non-overlapping matches, scanning from the left
RECURSIVE findall(_, _)
findall(s, pos) ==
  IF pos > Len(s) THEN <<>>
  ELSE IF CodeEnd(s, pos) = 0 THEN findall(s, pos + 1)
  ELSE <<SubSeq(s, pos, CodeEnd(s, pos) - 1)>> \o findall(s, CodeEnd(s, pos))

\* set(matches)
extract_icd_codes(note_content) ==
  {findall(note_content, 1)[i] : i \in 1..Len(findall(note_content, 1))}

\* list(set(...)): the elements in an order the set's hashing decides
Listings(S) ==
  {q \in [1..Cardinality(S) -> S] : \A a, b \in 1..Cardinality(S) : a # b => q[a] # q[b]}

ExtractCalls ==
  {Pending("extract_icd_codes", [note_content |-> t]) : t \in CodeTexts}

Extract ==
  /\ fn.op = "extract_icd_codes"
  /\ ~fn.done
  /\ \E listing \in Listings(extract_icd_codes(fn.arg.note_content)) :
       fn' = [fn EXCEPT !.done = TRUE, !.out = listing]
  /\ UNCHANGED <<appVars, encVars, memVars, fileVars, ex, llmVars>>

\* ------------------------------------------------------------------- calls
InitPure ==
  /\ disk = (UserDoc :> Plain(<<65>>))
  /\ mpc = [p \in Procs |-> "start"]
  /\ key = [p \in Procs |-> NoKey]
  /\ loads = [p \in Procs |-> 0]
  /\ mem = NoMem
  /\ res = NoRes
  /\ fileOps = 0
  /\ lastOp = NoOp
  /\ ex = NoExport
  /\ call = NoCall
  /\ prev = NoPrev
  /\ db = NoDb
  /\ dash = NoDash
  /\ gen = NoGen
  /\ stt = NoStt
  /\ \/ fn \in PromptCalls
     \/ \E n \in NoteTypes : fn \in ValidateCalls(n)
     \/ fn \in CleanCalls
     \/ fn \in SuggestCalls
     \/ fn \in SearchCalls
     \/ fn \in ExtractCalls

NextPure ==
  \/ BuildPrompt
  \/ Validate
  \/ Clean
  \/ Suggest
  \/ Search
  \/ Extract

SpecPure == InitPure /\ [][NextPure]_vars


\* ================================= ExportManager.export_to_docx / _to_pdf
\* What a renderer puts into its document, in order: <<kind>> or
\* <<kind, text>>.  Texts are sequences of atoms; the atom "a49" stands for
\* 49 letters.  No text here holds '&', '<' or '>', so the escaping
\* export_to_pdf applies to paragraph lines leaves them as they are.
MaxBody == 2         \* most lines of a note handed to a renderer
BodyLines == {<<>>, <<" ">>, <<"a">>, <<" ", "a", ":">>, <<"a49", ":">>}
\* content.split('\n') yields at least one line
Contents == SeqsUpTo(BodyLines, MaxBody) \ {<<>>}

\* dicts: a missing key is outside the domain; {} and None are both falsy
EmptyDict == [k \in {} |-> ""]
PatientInfos ==
  {EmptyDict, [name |-> "Ann"], [name |-> "Ann", age |-> "40"], [age |-> "40"],
   [name |-> "Ann", age |-> "40", gender |-> "F", contact |-> "555"]}
DoctorInfos == {EmptyDict, [name |-> "Lee"], [name |-> "Lee", email |-> "lee@clinic"]}
Get(dict, k, default) == IF k \in DOMAIN dict THEN dict[k] ELSE default
Has(dict, k) == k \in DOMAIN dict /\ dict[k] # ""

\* logo_path: not given, given but no such file, a readable image, a file
\* that exists and cannot be read as an image
Logos == {"none", "missing", "readable", "unreadable"}
LogoExists(logo) == logo \in {"readable", "unreadable"}

\* What is outside the program: whether reportlab's Image(...) reads the
\* file when it is constructed or only when the page is drawn, and whether
\* the output file can be written to the end.
Environments ==
  [image_read : {"on_construct", "on_draw"}, disk : {"ok", "full"}]

AtomLen(a) == IF a = "a49" THEN 49 ELSE 1
RECURSIVE TextLen(_)
TextLen(t) == IF t = <<>> THEN 0 ELSE AtomLen(t[1]) + TextLen(Tail(t))
endswith(t, a) == t # <<>> /\ t[Len(t)] = a

\* the loop over content.split('\n'), the same in both renderers but for
\* the text of a paragraph (the line as it is / the line escaped)
BodyElement(line) ==
  IF strip(line) # <<>>
  THEN IF endswith(strip(line), ":") /\ TextLen(strip(line)) < 50
       THEN <<"heading", strip(line)>>
       ELSE <<"paragraph", line>>
  ELSE <<"spacing">>
BodyElements(content) == [i \in 1..Len(content) |-> BodyElement(content[i])]

\* export_to_docx up to doc.save: the four table rows are always added
DocxElements(a) ==
  (IF LogoExists(a.logo) THEN << <<"logo">> >> ELSE <<>>)
  \o << <<"clinic_heading">>, <<"note_heading">>, <<"spacer">>, <<"date">>,
        <<"spacer">> >>
  \o (IF DOMAIN a.patient_info # {}
      THEN << <<"heading", <<"Patient Information">> >>,
              <<"Name", <<Get(a.patient_info, "name", "N/A")>> >>,
              <<"Age", IF Has(a.patient_info, "age")
                       THEN <<a.patient_info["age"], " years">> ELSE <<"N/A">> >>,
              <<"Gender", <<Get(a.patient_info, "gender", "N/A")>> >>,
              <<"Contact", <<Get(a.patient_info, "contact", "N/A")>> >>,
              <<"spacer">> >>
      ELSE <<>>)
  \o (IF DOMAIN a.doctor_info # {}
      THEN << <<"heading", <<"Provider Information">> >>,
              <<"Doctor", <<"Dr. ", Get(a.doctor_info, "name", "Unknown")>> >> >>
           \o (IF Has(a.doctor_info, "email")
               THEN << <<"Email", <<a.doctor_info["email"]>> >> >> ELSE <<>>)
           \o << <<"spacer">> >>
      ELSE <<>>)
  \o << <<"separator">>, <<"spacer">> >>
  \o BodyElements(a.content)

\* export_to_pdf up to doc.build: an Image(...) that raises is dropped
\* (except: pass); Age, Gender and Contact are added only when present
PdfLogo(a) ==
  IF LogoExists(a.logo)
       /\ ~(a.logo = "unreadable" /\ a.env.image_read = "on_construct")
  THEN << <<"logo">>, <<"spacer">> >> ELSE <<>>
PdfElements(a) ==
  PdfLogo(a)
  \o << <<"clinic_heading">>, <<"spacer">>, <<"note_heading">>, <<"spacer">>,
        <<"date">>, <<"spacer">> >>
  \o (IF DOMAIN a.patient_info # {}
      THEN << <<"heading", <<"Patient Information">> >>,
              <<"Name", <<Get(a.patient_info, "name", "N/A")>> >> >>
           \o (IF Has(a.patient_info, "age")
               THEN << <<"Age", <<a.patient_info["age"], " years">> >> >> ELSE <<>>)
           \o (IF Has(a.patient_info, "gender")
               THEN << <<"Gender", <<a.patient_info["gender"]>> >> >> ELSE <<>>)
           \o (IF Has(a.patient_info, "contact")
               THEN << <<"Contact", <<a.patient_info["contact"]>> >> >> ELSE <<>>)
           \o << <<"spacer">> >>
      ELSE <<>>)
  \o (IF DOMAIN a.doctor_info # {}
      THEN << <<"heading", <<"Provider Information">> >>,
              <<"Doctor", <<"Dr. ", Get(a.doctor_info, "name", "Unknown")>> >> >>
           \o (IF Has(a.doctor_info, "email")
               THEN << <<"Email", <<a.doctor_info["email"]>> >> >> ELSE <<>>)
           \o << <<"spacer">> >>
      ELSE <<>>)
  \o << <<"separator">>, <<"spacer">> >>
  \o BodyElements(a.content)

\* The outcome of a renderer: what it returned, the elements of the
\* document it wrote ("none": it wrote nothing), and what it left at the
\* output path.
NotRun == [ran |-> FALSE, ok |-> FALSE, elements |-> <<>>, file |-> "none"]
Returned(ok, elements, file) ==
  [ran |-> TRUE, ok |-> ok, elements |-> elements, file |-> file]

\* doc.add_picture raises on a file it cannot read, before anything is
\* saved; doc.save writes the file.
export_to_docx(a) ==
  IF a.logo = "unreadable" THEN Returned(FALSE, <<>>, "none")
  ELSE IF a.env.disk = "full" THEN Returned(FALSE, <<>>, "partial")
  ELSE Returned(TRUE, DocxElements(a), "complete")

\* doc.build draws the elements and then writes the file; an image that
\* cannot be read when drawn ends the build before the file is opened.
export_to_pdf(a) ==
  IF a.logo = "unreadable" /\ a.env.image_read = "on_draw"
  THEN Returned(FALSE, <<>>, "none")
  ELSE IF a.env.disk = "full" THEN Returned(FALSE, <<>>, "partial")
  ELSE Returned(TRUE, PdfElements(a), "complete")

PdfPath == <<"note", ".pdf">>
DocxPath == <<"note", ".docx">>
Written(d, p, file) ==
  CASE file = "complete" -> WriteFile(d, p, Rendered)
    [] file = "partial" -> WriteFile(d, p, Partial)
    [] OTHER -> d

RenderCalls ==
  {[op |-> "export",
    arg |-> [content |-> c, patient_info |-> pi, doctor_info |-> di,
             logo |-> l, env |-> e],
    done |-> FALSE,
    out |-> [pdf |-> NotRun, docx |-> NotRun]] :
     c \in Contents, pi \in PatientInfos, di \in DoctorInfos, l \in Logos,
     e \in Environments}

ExportToPdf ==
  /\ fn.op = "export"
  /\ ~fn.out.pdf.ran
  /\ fn' = [fn EXCEPT !.done = TRUE, !.out.pdf = export_to_pdf(fn.arg)]
  /\ disk' = Written(disk, PdfPath, export_to_pdf(fn.arg).file)
  /\ UNCHANGED <<appVars, mpc, key, loads, memVars, fileVars, ex, llmVars>>

ExportToDocx ==
  /\ fn.op = "export"
  /\ ~fn.out.docx.ran
  /\ fn' = [fn EXCEPT !.done = TRUE, !.out.docx = export_to_docx(fn.arg)]
  /\ disk' = Written(disk, DocxPath, export_to_docx(fn.arg).file)
  /\ UNCHANGED <<appVars, mpc, key, loads, memVars, fileVars, ex, llmVars>>

\* ------------------------------------------- NoteFormatter._create_header
\* The titles the three format_*_note methods pass, and datetime.now().
HeaderTitles == {"SOAP Note", "Referral Note", "Discharge Summary"}
Clock == {"t1", "t2"}

\* header_lines, one tuple per line; "\n".join keeps them in this order
PatientBlock(patient_info) ==
  IF patient_info = EmptyDict THEN <<>>
  ELSE <<<<"PATIENT INFORMATION:">>,
         <<"Name: ", Get(patient_info, "name", "N/A")>>>>
       \o (IF Has(patient_info, "age")
           THEN <<<<"Age: ", patient_info.age, " years">>>> ELSE <<>>)
       \o (IF Has(patient_info, "gender")
           THEN <<<<"Gender: ", patient_info.gender>>>> ELSE <<>>)
       \o (IF Has(patient_info, "contact")
           THEN <<<<"Contact: ", patient_info.contact>>>> ELSE <<>>)
       \o <<<<>>>>

DoctorBlock(doctor_info) ==
  IF doctor_info = EmptyDict THEN <<>>
  ELSE <<<<"PROVIDER INFORMATION:">>,
         <<"Doctor: ", Get(doctor_info, "name", "N/A")>>>>
       \o (IF Has(doctor_info, "email")
           THEN <<<<"Email: ", doctor_info.email>>>> ELSE <<>>)
       \o <<<<>>>>

create_header(note_type, patient_info, doctor_info, now) ==
  <<<<"=", "70">>, <<"center", note_type, "70">>, <<"=", "70">>, <<>>,
    <<"Date: ", now, "%Y-%m-%d">>, <<"Time: ", now, "%H:%M:%S">>, <<>>>>
  \o PatientBlock(patient_info)
  \o DoctorBlock(doctor_info)
  \o <<<<"-", "70">>, <<>>>>

HeaderCalls ==
  {[op |-> "create_header",
    arg |-> [note_type |-> t, patient_info |-> pi, doctor_info |-> di, now |-> c],
    done |-> FALSE,
    out |-> <<>>] :
     t \in HeaderTitles, pi \in PatientInfos, di \in DoctorInfos, c \in Clock}

CreateHeader ==
  /\ fn.op = "create_header"
  /\ ~fn.done
  /\ fn' = [fn EXCEPT !.done = TRUE,
                      !.out = create_header(fn.arg.note_type, fn.arg.patient_info,
                                            fn.arg.doctor_info, fn.arg.now)]
  /\ UNCHANGED <<appVars, encVars, memVars, fileVars, ex, llmVars>>

InitRender ==
  /\ disk = (UserDoc :> Plain(<<65>>))
  /\ mpc = [p \in Procs |-> "start"]
  /\ key = [p \in Procs |-> NoKey]
  /\ loads = [p \in Procs |-> 0]
  /\ mem = NoMem
  /\ res = NoRes
  /\ fileOps = 0
  /\ lastOp = NoOp
  /\ ex = NoExport
  /\ call = NoCall
  /\ prev = NoPrev
  /\ db = NoDb
  /\ dash = NoDash
  /\ gen = NoGen
  /\ stt = NoStt
  /\ fn \in RenderCalls \/ fn \in HeaderCalls

NextRender ==
  \/ ExportToPdf
  \/ ExportToDocx
  \/ CreateHeader

SpecRender == InitRender /\ [][NextRender]_vars


\* ===================================== PatientDatabase and the patients tab
MaxPatients == 2     \* patients created per run
MaxSaved == 2        \* notes saved per run

\* INSERT INTO patients ...; commit; return lastrowid
create_patient(d) ==
  [d EXCEPT !.last_patient = @ + 1, !.patients = @ \cup {d.last_patient + 1}]

\* DELETE FROM clinical_notes WHERE patient_id = ?; DELETE FROM patients
\* WHERE id = ?; commit
delete_patient(d, patient_id) ==
  [d EXCEPT !.notes = {n \in @ : n.patient_id # patient_id},
            !.patients = @ \ {patient_id}]

\* INSERT INTO clinical_notes ...: the connection never turns on PRAGMA
\* foreign_keys, so patient_id is stored as it is given
create_clinical_note(d, patient_id) ==
  [d EXCEPT !.last_note = @ + 1,
            !.notes = @ \cup {[id |-> d.last_note + 1, patient_id |-> patient_id]}]

\* SELECT * FROM patients WHERE id = ?: the row, or None (0)
get_patient(d, patient_id) == IF patient_id \in d.patients THEN patient_id ELSE 0
get_all_patients(d) == d.patients

\* refresh_patients: the tree is emptied (which drops the selection) and
\* filled again from the table; current_patient is not touched
refresh_patients(w, d) == [w EXCEPT !.tree = get_all_patients(d), !.selected = 0]

\* PatientDialog.save_patient for a new patient, then its callback
AddPatient ==
  /\ db.last_patient < MaxPatients
  /\ db' = create_patient(db)
  /\ dash' = refresh_patients(dash, create_patient(db))
  /\ UNCHANGED <<docVars, encVars, memVars, fileVars, ex, llmVars, gen, stt>>

\* the user clicks a row of patients_tree
SelectRow(row) ==
  /\ row \in dash.tree
  /\ dash' = [dash EXCEPT !.selected = row]
  /\ UNCHANGED <<docVars, encVars, memVars, fileVars, ex, llmVars, db, gen, stt>>

\* DashboardWindow.delete_patient: the Delete button, then the confirmation
DeletePatient(confirmed) ==
  /\ dash.selected # 0
  /\ IF confirmed
     THEN /\ db' = delete_patient(db, dash.selected)
          /\ dash' = refresh_patients(dash, delete_patient(db, dash.selected))
     ELSE UNCHANGED <<db, dash>>
  /\ UNCHANGED <<docVars, encVars, memVars, fileVars, ex, llmVars, gen, stt>>

\* select_patient_for_notes: a double click on a row
SelectPatientForNotes ==
  /\ dash.selected # 0
  /\ dash' = [dash EXCEPT !.current_patient = get_patient(db, dash.selected)]
  /\ UNCHANGED <<docVars, encVars, memVars, fileVars, ex, llmVars, db, gen, stt>>

\* save_note with a note in the display: create_clinical_note for
\* current_patient['id'], update_patient when a code is selected (an
\* UPDATE adds no row), refresh_patients
SaveNote ==
  /\ dash.current_patient # 0
  /\ db.last_note < MaxSaved
  /\ db' = create_clinical_note(db, dash.current_patient)
  /\ dash' = refresh_patients(dash, create_clinical_note(db, dash.current_patient))
  /\ UNCHANGED <<docVars, encVars, memVars, fileVars, ex, llmVars, gen, stt>>

NextNotes ==
  \/ AddPatient
  \/ \E row \in 1..MaxPatients : SelectRow(row)
  \/ \E confirmed \in BOOLEAN : DeletePatient(confirmed)
  \/ SelectPatientForNotes
  \/ SaveNote

SpecNotes == Init /\ [][NextNotes]_vars

\* =============================== SpeechToText recorder and the record button
MaxToggles == 3      \* presses of the record button per run
MaxChunks == 2       \* audio blocks delivered per run

\* toggle_recording, on the UI thread.  Starting: the flag of the window is
\* set and start_recording starts a thread running record().  Stopping: the
\* flag is cleared and a thread running process_recording() is started.
ToggleRecording ==
  /\ stt.toggles < MaxToggles
  /\ stt' = IF ~stt.ui
            THEN [stt EXCEPT !.ui = TRUE, !.toggles = @ + 1,
                             !.workers = Append(@, "reset")]
            ELSE [stt EXCEPT !.ui = FALSE, !.toggles = @ + 1,
                             !.stoppers = Append(@, [pc |-> "clear", result |-> "none"])]
  /\ UNCHANGED <<docVars, encVars, memVars, fileVars, ex, llmVars, db, dash, gen>>

\* record(): self.recorded_audio = []
WorkerReset(w) ==
  /\ stt.workers[w] = "reset"
  /\ stt' = [stt EXCEPT !.recorded_audio = 0, !.workers[w] = "set"]
  /\ UNCHANGED <<docVars, encVars, memVars, fileVars, ex, llmVars, db, dash, gen>>

\* record(): self.is_recording = True
WorkerSet(w) ==
  /\ stt.workers[w] = "set"
  /\ stt' = [stt EXCEPT !.is_recording = TRUE, !.workers[w] = "open"]
  /\ UNCHANGED <<docVars, encVars, memVars, fileVars, ex, llmVars, db, dash, gen>>

\* with sd.InputStream(...): the device opens, or raises and the except
\* clause clears the flag
StreamOutcomes == {"opened", "raised"}
WorkerOpen(w, o) ==
  /\ stt.workers[w] = "open"
  /\ stt' = IF o = "opened"
            THEN [stt EXCEPT !.workers[w] = "loop"]
            ELSE [stt EXCEPT !.is_recording = FALSE, !.workers[w] = "ended"]
  /\ UNCHANGED <<docVars, encVars, memVars, fileVars, ex, llmVars, db, dash, gen>>

\* audio_callback of an open stream: if self.is_recording: append
AudioCallback(w) ==
  /\ stt.workers[w] = "loop"
  /\ stt.is_recording
  /\ stt.recorded_audio < MaxChunks
  /\ stt' = [stt EXCEPT !.recorded_audio = @ + 1]
  /\ UNCHANGED <<docVars, encVars, memVars, fileVars, ex, llmVars, db, dash, gen>>

\* while self.is_recording: sd.sleep(100) -- the test fails, the stream is
\* closed and the thread ends
WorkerExit(w) ==
  /\ stt.workers[w] = "loop"
  /\ ~stt.is_recording
  /\ stt' = [stt EXCEPT !.workers[w] = "ended"]
  /\ UNCHANGED <<docVars, encVars, memVars, fileVars, ex, llmVars, db, dash, gen>>

\* stop_recording(): self.is_recording = False
StopClear(t) ==
  /\ stt.stoppers[t].pc = "clear"
  /\ stt' = [stt EXCEPT !.is_recording = FALSE, !.stoppers[t].pc = "read"]
  /\ UNCHANGED <<docVars, encVars, memVars, fileVars, ex, llmVars, db, dash, gen>>

\* stop_recording() after sd.sleep(200): if self.recorded_audio: save it
\* and return the path (None when saving raises); else None
SaveOutcomes == {"saved", "raised"}
StopRead(t, o) ==
  /\ stt.stoppers[t].pc = "read"
  /\ stt' = [stt EXCEPT !.stoppers[t] =
               [pc |-> "done",
                result |-> IF stt.recorded_audio > 0 /\ o = "saved"
                           THEN "path" ELSE "None"]]
  /\ UNCHANGED <<docVars, encVars, memVars, fileVars, ex, llmVars, db, dash, gen>>

NextRecorder ==
  \/ ToggleRecording
  \/ \E w \in DOMAIN stt.workers : WorkerReset(w)
  \/ \E w \in DOMAIN stt.workers : WorkerSet(w)
  \/ \E w \in DOMAIN stt.workers, o \in StreamOutcomes : WorkerOpen(w, o)
  \/ \E w \in DOMAIN stt.workers : AudioCallback(w)
  \/ \E w \in DOMAIN stt.workers : WorkerExit(w)
  \/ \E t \in DOMAIN stt.stoppers : StopClear(t)
  \/ \E t \in DOMAIN stt.stoppers, o \in SaveOutcomes : StopRead(t, o)

SpecRecorder == Init /\ [][NextRecorder]_vars

\* ============================================ the dashboard's Generate button
MaxGenerations == 2  \* generations started per run

\* DashboardWindow.generate_note, on the UI thread; Tk runs the command of
\* an enabled button only.  With no text: a warning and nothing else.
GenerateClick(has_text) ==
  /\ gen.btn = "normal"
  /\ gen.runs < MaxGenerations
  /\ gen' = IF has_text
            THEN [gen EXCEPT !.btn = "disabled", !.progress = TRUE, !.runs = @ + 1,
                             !.workers = Append(@, "template")]
            ELSE gen
  /\ UNCHANGED <<docVars, encVars, memVars, fileVars, ex, llmVars, db, dash, stt>>

\* generate(): template = self.config.get_prompt_template(...): None when
\* the file is absent, its text, or an exception of open()/read() (the
\* path is a directory, the file cannot be read or decoded), which nothing
\* in generate() catches: the thread ends there.
TemplateOutcomes == {"absent", "read", "raised"}
WorkerTemplate(w, o) ==
  /\ gen.workers[w] = "template"
  /\ gen' = [gen EXCEPT !.workers[w] = IF o = "raised" THEN "raised" ELSE "llm"]
  /\ UNCHANGED <<docVars, encVars, memVars, fileVars, ex, llmVars, db, dash, stt>>

\* generate(): note = self.llm.generate_note(transcription, note_type, template)
WorkerCall(w) ==
  /\ gen.workers[w] = "llm"
  /\ Entered("oneshot", FALSE)
  /\ gen' = [gen EXCEPT !.workers[w] = "waiting"]
  /\ UNCHANGED <<docVars, encVars, memVars, fileVars, ex, db, dash, stt>>

\* generate(): if note: keep and show it, suggest codes, showinfo;
\* else: showerror
WorkerShow(w) ==
  /\ gen.workers[w] = "waiting"
  /\ call.pc = "done"
  /\ gen' = [gen EXCEPT !.workers[w] = "enable",
                        !.generated_note = IF Truthy(call.result)
                                           THEN call.result.text ELSE @]
  /\ UNCHANGED <<docVars, encVars, memVars, fileVars, ex, llmVars, db, dash, stt>>

\* generate(): self.generate_btn.config(state=NORMAL)
WorkerEnable(w) ==
  /\ gen.workers[w] = "enable"
  /\ gen' = [gen EXCEPT !.btn = "normal", !.workers[w] = "stop"]
  /\ UNCHANGED <<docVars, encVars, memVars, fileVars, ex, llmVars, db, dash, stt>>

\* generate(): self.progress.stop(); the thread ends
WorkerStop(w) ==
  /\ gen.workers[w] = "stop"
  /\ gen' = [gen EXCEPT !.progress = FALSE, !.workers[w] = "ended"]
  /\ UNCHANGED <<docVars, encVars, memVars, fileVars, ex, llmVars, db, dash, stt>>

\* what the worker threads and the server do, without the user
NextWorkers ==
  \/ \E w \in DOMAIN gen.workers, o \in TemplateOutcomes : WorkerTemplate(w, o)
  \/ \E w \in DOMAIN gen.workers : WorkerCall(w)
  \/ \E o \in ProbeOutcomes : Probe(o)
  \/ \E o \in PostFailures : PostFails(o)
  \/ \E b \in Bodies : PostOneShot(b)
  \/ \E w \in DOMAIN gen.workers : WorkerShow(w)
  \/ \E w \in DOMAIN gen.workers : WorkerEnable(w)
  \/ \E w \in DOMAIN gen.workers : WorkerStop(w)

NextGenerate ==
  \/ \E has_text \in BOOLEAN : GenerateClick(has_text)
  \/ NextWorkers

\* A thread that can run does run, and every request is answered or times
\* out (timeout=5, timeout=120).
SpecGenerate == Init /\ [][NextGenerate]_vars /\ WF_vars(NextWorkers)

\* ================================================================== claims
Range(f) == {f[i] : i \in DOMAIN f}
ExportReturned == ex.pc = "done"

\* C1: when rendering succeeded and the encryption step then fails, the
\* temporary plaintext artifact is gone from disk by the time
\* export_encrypted returns the failure.
C1_NoPlaintextAfterFailedEncryption ==
  (ExportReturned /\ ex.cause = "encrypt") => ~Exists(ex.temp)

\* C2: when the render step fails (the renderer reports failure, or the
\* format is rejected), encryption is never invoked and no file written by
\* the call is on disk when it returns.
C2_RenderFailureLeavesNoFile ==
  (ExportReturned /\ ex.cause \in {"format", "render"}) =>
    /\ "encrypt" \notin Range(ex.steps)
    /\ ex.created \cap DOMAIN disk = {}

\* C3: an export that returns a path has rendered, then encrypted, then
\* deleted the plaintext, in that order; the returned path is the temp path
\* plus '.enc', it holds the ciphertext of the rendered artifact under the
\* manager's key, and the plaintext temp artifact is not on disk.
C3_SuccessfulExportOrder ==
  (ExportReturned /\ ex.result # None) =>
    /\ ex.steps = <<"render", "encrypt", "unlink">>
    /\ ex.result = ex.temp \o <<".enc">>
    /\ Exists(ex.result)
    /\ disk[ex.result].layers = <<key[ex.proc]>>
    /\ disk[ex.result].data = Rendered.data
    /\ ~Exists(ex.temp)

C3_Witness ==
  /\ ExportReturned
  /\ ex.result = <<"note", ".docx", ".enc">>
  /\ ex.steps = <<"render", "encrypt", "unlink">>

\* C4: decrypt(encrypt(b)) under the same key gives back exactly the bytes
\* b, for every byte buffer b, valid UTF-8 or not.
C4_DecryptInvertsEncrypt ==
  (mem.proc # 0 /\ res.proc # 0 /\ res.input = mem.token
     /\ key[res.proc] = key[mem.proc]) =>
    /\ res.out.status = "str"
    /\ Utf8Encode(res.out.chars) = mem.plain.data

\* C5: decrypt of a token made under another key, of an altered token and
\* of input that is not a token ends in an error and yields no value;
\* decrypt_file in that case writes no file.
WrongKeyOrMalformed(k, c) == c.layers = <<>> \/ c.layers[Len(c.layers)] # k
C5_DecryptCall ==
  (res.proc # 0 /\ WrongKeyOrMalformed(key[res.proc], res.input)) =>
    res.out.status = "InvalidToken"
C5_DecryptFileStep ==
  (/\ fileOps' = fileOps + 1
   /\ lastOp' # lastOp
   /\ lastOp'.op = "decrypt_file"
   /\ WrongKeyOrMalformed(key[lastOp'.proc], disk[lastOp'.inp])) =>
    /\ lastOp'.status = "InvalidToken"
    /\ disk' = disk
C5_WrongKeyNeverDecrypts == [][C5_DecryptFileStep]_vars /\ []C5_DecryptCall

\* a token of process 1's key was refused by process 2's decrypt_file and
\* an altered token by decrypt
C5_Witness ==
  /\ lastOp.op = "decrypt_file"
  /\ lastOp.status = "InvalidToken"
  /\ Exists(lastOp.inp)
  /\ IsToken(disk[lastOp.inp])
  /\ key[lastOp.proc] # NoKey
  /\ disk[lastOp.inp].layers[Len(disk[lastOp.inp].layers)] \in Procs \ {key[lastOp.proc]}
  /\ res.proc # 0
  /\ res.out.status = "InvalidToken"

\* C6: encrypt_file(p) and decrypt_file(p) with the default output path
\* leave the file at p in place with the same content and write their
\* result to another path.
C6_FileStep ==
  (/\ fileOps' = fileOps + 1
   /\ lastOp' # lastOp
   /\ lastOp'.dflt) =>
    /\ lastOp'.inp \in DOMAIN disk'
    /\ disk'[lastOp'.inp] = disk[lastOp'.inp]
    /\ (lastOp'.status \in {"ok", "str"} => lastOp'.out # lastOp'.inp)
C6_OriginalUntouched == [][C6_FileStep]_vars

\* C7: once the key file holds a key, nothing the Encryption Service does
\* changes the content of the key file.
C7_KeyFileStep ==
  (Exists(KeyPath) /\ ValidKey(disk[KeyPath])) =>
    (KeyPath \in DOMAIN disk' /\ disk'[KeyPath] = disk[KeyPath])
C7_KeyNeverRotated == [][C7_KeyFileStep]_vars

\* C8: a process executes the load-or-create step at most once, and the
\* service is used by a process only after that step has finished.
C8_KeyLoadedOncePerProcess ==
  \A p \in Procs :
    /\ loads[p] <= 1
    /\ (ex.pc # "idle" /\ ex.proc = p) => (mpc[p] = "ready" /\ key[p] # NoKey)

C8_Witness ==
  /\ \A p \in Procs : loads[p] = 1 /\ mpc[p] = "ready"
  /\ ex.pc = "unlink"

\* C9: the generation request is sent only after the liveness probe of the
\* same invocation returned HTTP 200; an invocation whose probe failed
\* returns None with no POST sent.
C9_PostOnlyAfterProbe ==
  /\ "POST" \in Range(call.net) => (call.net = <<"GET", "POST">> /\ call.probe = "200")
  /\ (call.pc = "done" /\ call.probe # "200") =>
       (call.net = <<"GET">> /\ call.result = NoText)

C9_Witness ==
  /\ call.pc = "done"
  /\ call.mode = "stream"
  /\ call.net = <<"GET", "POST">>
  /\ prev.valid
  /\ prev.mode = "oneshot"
  /\ prev.cause = "probe"

\* C10: generate_note reports failures with a kind that tells the cause
\* (Unavailable, Timeout, BadResponse), and a reply without a usable
\* `response` text is a failure.
Failure(cause) == cause # ""
ErrorKind(cause) ==
  CASE cause \in {"probe", "connection_error"} -> "Unavailable"
    [] cause = "timeout" -> "Timeout"
    [] OTHER -> "BadResponse"
WellFormed(l) == l.json = "object" /\ l.field = "str"
RECURSIVE WellFormedTexts(_)
WellFormedTexts(ls) ==
  IF ls = <<>> THEN <<>>
  ELSE IF WellFormed(ls[1]) THEN <<ls[1].text>> \o WellFormedTexts(Tail(ls))
  ELSE WellFormedTexts(Tail(ls))
RECURSIVE Concat(_)
Concat(ts) == IF ts = <<>> THEN <<>> ELSE ts[1] \o Concat(Tail(ts))
C11_ChunksAreFragmentsInOrder ==
  (call.mode = "stream" /\ call.callback) =>
    /\ call.delivered = WellFormedTexts(call.lines)
    /\ (call.pc = "done" /\ call.result.kind = "str") =>
         call.result.text = strip(Concat(call.delivered))

\* C12: a line that is not a JSON object with a text `response` is skipped
\* (nothing is accumulated or passed on, and the loop goes on to the next
\* line); a generate_note_stream call that got its 200 reply fails only
\* when the transport fails.
C12_MalformedStep ==
  (/\ call.pc = "read"
   /\ Len(call'.lines) = Len(call.lines) + 1
   /\ ~WellFormed(call'.lines[Len(call'.lines)])) =>
    /\ call'.pc = "read"
    /\ call'.acc = call.acc
    /\ call'.delivered = call.delivered
C12_OnlyTransportFails ==
  (call.mode = "stream" /\ call.pc = "done" /\ call.result = NoText
     /\ call.probe = "200") =>
    call.cause \in PostFailures
C12_MalformedLinesSkipped == [][C12_MalformedStep]_vars /\ []C12_OnlyTransportFails

\* C13: with a template supplied, the prompt is the template with every
\* occurrence of the marker "{transcript}" replaced by the transcript and
\* nothing else changed; a template without the marker is used unchanged.
FirstAt(s, m) ==
  IF Contains(s, m)
  THEN CHOOSE i \in 1..(Len(s) - Len(m) + 1) :
         /\ SubSeq(s, i, i + Len(m) - 1) = m
         /\ \A j \in 1..(i - 1) : SubSeq(s, j, j + Len(m) - 1) # m
  ELSE 0
RECURSIVE Substituted(_, _, _)
Substituted(s, m, x) ==
  IF FirstAt(s, m) = 0 THEN s
  ELSE SubSeq(s, 1, FirstAt(s, m) - 1) \o x
         \o Substituted(SubSeq(s, FirstAt(s, m) + Len(m), Len(s)), m, x)
PromptBuilt == fn.op = "generate_note" /\ fn.done
C13_TemplateSubstitution ==
  (PromptBuilt /\ fn.arg.template.kind = "str") =>
    fn.out = Substituted(fn.arg.template.text, <<"{transcript", "}">>,
                         fn.arg.transcription)

\* C13 as amended: the marker is "{transcription}"; with a non-empty
\* template the prompt is the template with every occurrence of
\* "{transcription}" replaced by the transcript and nothing else changed (a
\* template without it, one holding "{transcript}" included, is used
\* unchanged); an empty template is treated as no template and the
\* built-in prompt is used.
C13_TranscriptionMarker ==
  /\ (PromptBuilt /\ fn.arg.template.kind = "str" /\ fn.arg.template.text # <<>>) =>
       fn.out = Substituted(fn.arg.template.text, <<"{transcript", "ion}">>,
                            fn.arg.transcription)
  /\ (PromptBuilt /\ fn.arg.template = Str(<<>>)) =>
       (fn.out # <<>> /\ fn.out[1] = "base_instruction")

\* a template with the marker twice and text in between the two
C13_Witness ==
  /\ PromptBuilt
  /\ fn.arg.template = Str(<<"{transcript", "ion}", "{transcript", "ion}">>)
  /\ fn.arg.transcription = <<"p", "q">>
  /\ fn.out = <<"p", "q", "p", "q">>

\* C14: without a template, for every transcript and every note type that
\* is SOAP, Referral or Discharge in any letter case, the prompt contains
\* the whole transcript unaltered and the section labels of that kind's
\* skeleton, and does not contain the skeleton of another kind.
KindOf(n) ==
  CASE n \in {"SOAP", "soap"} -> "SOAP"
    [] n \in {"Referral", "REFERRAL"} -> "Referral"
    [] n \in {"Discharge", "discharge"} -> "Discharge"
    [] OTHER -> ""
SkeletonLabels(k) ==
  CASE k = "SOAP" -> {"Subjective:", "Objective:", "Assessment:", "Plan:"}
    [] k = "Referral" -> {"Reason for Referral:", "Clinical History:",
                          "Assessment:", "Requested Action:"}
    [] k = "Discharge" -> {"Admission Diagnosis:", "Hospital Course:",
                           "Discharge Diagnosis:", "Discharge Instructions:"}
    [] OTHER -> {}
C14_BuiltinPrompt ==
  (PromptBuilt /\ fn.arg.template = NoText /\ KindOf(fn.arg.note_type) # "") =>
    /\ Contains(fn.out, fn.arg.transcription)
    /\ SkeletonLabels(KindOf(fn.arg.note_type)) \subseteq Range(fn.out)
    /\ \A n \in NoteTypes :
         KindOf(n) \notin {"", KindOf(fn.arg.note_type)} =>
           /\ ~(SkeletonLabels(KindOf(n)) \subseteq Range(fn.out))
           /\ ~Contains(fn.out, format_instruction(n))

C14_Witness ==
  /\ PromptBuilt
  /\ fn.arg.template = NoText
  /\ fn.arg.note_type = "discharge"
  /\ fn.arg.transcription = <<"p", "q">>
  /\ Contains(fn.out, <<"Patient Consultation:", "p", "q">>)

\* C15: validate_note returns (True, []) exactly when every required
\* section label of the note's kind occurs in the note in some letter case,
\* wherever it stands; when exactly one label does not occur it returns
\* (False, [that label]); the missing labels are listed in the kind's label
\* order; a note type that is none of the three kinds gives (True, []).
RequiredLabels(k) ==
  CASE k = "SOAP" -> <<"Subjective", "Objective", "Assessment", "Plan">>
    [] k = "Referral" -> <<"Reason for Referral", "Clinical History", "Assessment">>
    [] k = "Discharge" -> <<"Admission Diagnosis", "Hospital Course",
                            "Discharge Diagnosis">>
    [] OTHER -> <<>>
OccursIn(label, content) == \E i \in 1..Len(content) : lower(content[i]) = lower(label)
Absent(k, content) == {l \in Range(RequiredLabels(k)) : ~OccursIn(l, content)}
Position(l, labels) == CHOOSE i \in 1..Len(labels) : labels[i] = l
Validated == fn.op = "validate_note" /\ fn.done
C15_Validate ==
  Validated =>
    LET k == KindOf(fn.arg.note_type)
        content == fn.arg.note_content
    IN /\ (fn.out = [valid |-> TRUE, missing |-> <<>>]) <=> (Absent(k, content) = {})
       /\ fn.out.valid <=> (fn.out.missing = <<>>)
       /\ \A l \in Range(RequiredLabels(k)) :
            Absent(k, content) = {l} => fn.out = [valid |-> FALSE, missing |-> <<l>>]
       /\ Range(fn.out.missing) = Absent(k, content)
       /\ \A i, j \in 1..Len(fn.out.missing) :
            i < j => Position(fn.out.missing[i], RequiredLabels(k))
                       < Position(fn.out.missing[j], RequiredLabels(k))
       /\ k = "" => fn.out = [valid |-> TRUE, missing |-> <<>>]

\* all four SOAP labels, in another order and in other letter cases
C15_Witness ==
  /\ Validated
  /\ fn.arg.note_type = "soap"
  /\ fn.arg.note_content = <<"Plan", "assessment", "OBJECTIVE", "Subjective">>
  /\ fn.out = [valid |-> TRUE, missing |-> <<>>]

\* C16: clean_note applied to its own result returns that result, for
\* every note made of letters, blanks and line breaks.
C16_CleanIdempotent ==
  (fn.op = "clean_note" /\ Len(fn.out) = 2) => fn.out[2] = fn.out[1]

\* a note with three line breaks in a row and blanks at both ends
C16_Witness ==
  /\ fn.op = "clean_note"
  /\ fn.arg.note_content = <<" ", "a", "\n", "\n", "\n", "a", "\n">>
  /\ fn.out = << <<"a", "\n", "\n", "a">>, <<"a", "\n", "\n", "a">> >>

\* C17: suggest_codes returns, for the keywords that occur in the
\* lower-cased text, taken in the order of the keyword table, their codes
\* with the descriptions of the index, no code twice; a text with
\* "headache" and "fever" gives the headache codes and then the fever code.
KeywordOccurs(k, text) ==
  \E i \in 1..Len(text) :
    /\ i + Len(keyword_mapping[k][1]) - 1 <= Len(text)
    /\ \A j \in 1..Len(keyword_mapping[k][1]) :
         lower(text[i + j - 1]) = keyword_mapping[k][1][j]
\* the place of a code in the table: its keyword's, then its own in the list
Rank(code) ==
  LET k == CHOOSE n \in 1..Len(keyword_mapping) :
             /\ code \in Range(keyword_mapping[n][2])
             /\ \A h \in 1..(n - 1) : code \notin Range(keyword_mapping[h][2])
      c == CHOOSE n \in 1..Len(keyword_mapping[k][2]) : keyword_mapping[k][2][n] = code
  IN k * 100 + c
Suggested == fn.op = "suggest_codes" /\ fn.done
C17_SuggestFromText ==
  Suggested =>
    /\ {fn.out[i][1] : i \in 1..Len(fn.out)} =
         UNION {Range(keyword_mapping[k][2]) :
                  k \in {h \in 1..Len(keyword_mapping) : KeywordOccurs(h, fn.arg.text)}}
    /\ \A i, j \in 1..Len(fn.out) : i < j => Rank(fn.out[i][1]) < Rank(fn.out[j][1])
    /\ \A i \in 1..Len(fn.out) :
         \E n \in 1..Len(icd_codes) : icd_codes[n] = fn.out[i]
    /\ (KeywordOccurs(1, fn.arg.text) /\ KeywordOccurs(2, fn.arg.text)) =>
         /\ Len(fn.out) >= 3
         /\ <<fn.out[1][1], fn.out[2][1], fn.out[3][1]>> = <<"R51", "G43.909", "R50.9">>

\* "Headache and fever"
C17_Witness ==
  /\ Suggested
  /\ fn.arg.text = <<"H", "e", "a", "d", "a", "c", "h", "e", " ", "a", "n", "d", " ",
                     "f", "e", "v", "e", "r">>
  /\ Len(fn.out) = 3
  /\ fn.out[3] = <<"R50.9", <<"F", "e", "v", "e", "r", ",", " ", "u", "n", "s", "p", "e",
                              "c", "i", "f", "i", "e", "d">>>>

\* C20: search_by_description returns the code whose description equals
\* the query when letter case is ignored, if there is one; otherwise the
\* first code, in the order of the index, whose description is contained in
\* the query or contains it; it returns None only when no description
\* matches either way.
SameIgnoringCase(a, b) ==
  Len(a) = Len(b) /\ \A i \in 1..Len(a) : lower(a[i]) = lower(b[i])
PartOf(a, b) ==
  \E i \in 0..(Len(b) - Len(a)) :
    \A j \in 1..Len(a) : lower(a[j]) = lower(b[i + j])
EqualEntries(q) == {n \in 1..Len(icd_codes) : SameIgnoringCase(icd_codes[n][2], q)}
PartialEntries(q) ==
  {n \in 1..Len(icd_codes) : PartOf(icd_codes[n][2], q) \/ PartOf(q, icd_codes[n][2])}
Searched == fn.op = "search_by_description" /\ fn.done
C20_LookupByDescription ==
  Searched =>
    /\ EqualEntries(fn.arg.description) # {} =>
         \E n \in EqualEntries(fn.arg.description) : fn.out = <<icd_codes[n][1]>>
    /\ (EqualEntries(fn.arg.description) = {}
          /\ PartialEntries(fn.arg.description) # {}) =>
         \E n \in PartialEntries(fn.arg.description) :
           /\ \A m \in PartialEntries(fn.arg.description) : n <= m
           /\ fn.out = <<icd_codes[n][1]>>
    /\ (fn.out = None) <=> (PartialEntries(fn.arg.description) = {})

\* "HEADache, unspecified" equals the description of R51.9, and contains
\* the description of R51, which stands earlier in the index
C20_Witness ==
  /\ Searched
  /\ fn.arg.description = <<"H", "E", "A", "D", "a", "c", "h", "e", ",", " ", "u", "n",
                            "s", "p", "e", "c", "i", "f", "i", "e", "d">>
  /\ fn.out = <<"R51.9">>

\* C18: for the same note text, patient info, doctor info and logo, in the
\* same environment, export_to_pdf and export_to_docx put the same
\* structural elements into their documents in the same order (clinic
\* heading, note-kind heading, date, patient-info fields, provider-info
\* fields, separator, and for each body line a heading, a paragraph or a
\* blank spacing), and one returns True exactly when the other does.
\* Spacers between the blocks are layout and are left out.
RECURSIVE Structure(_)
Structure(elements) ==
  IF elements = <<>> THEN <<>>
  ELSE (IF elements[1][1] = "spacer" THEN <<>> ELSE <<elements[1][1]>>)
       \o Structure(Tail(elements))
BothRendered == fn.op = "export" /\ fn.out.pdf.ran /\ fn.out.docx.ran
C18_SameStructure ==
  BothRendered =>
    /\ fn.out.pdf.ok <=> fn.out.docx.ok
    /\ (fn.out.pdf.ok /\ fn.out.docx.ok) =>
         Structure(fn.out.pdf.elements) = Structure(fn.out.docx.elements)

\* C19: a renderer given a logo file that exists and cannot be read
\* returns False, and a renderer that returns False leaves no file,
\* complete or partial, at its output path.
RenderedTo(r, p) ==
  r.ran =>
    /\ fn.arg.logo = "unreadable" => ~r.ok
    /\ ~r.ok => p \notin DOMAIN disk
C19_FailedRenderLeavesNoFile ==
  fn.op = "export" =>
    /\ RenderedTo(fn.out.pdf, PdfPath)
    /\ RenderedTo(fn.out.docx, DocxPath)

\* ------------------------------------------------------------------- C21
\* A token of s: the characters i..j are a capital letter, two digits and,
\* optionally, a dot and one to four digits; a word boundary stands on
\* each side, and no longer run from i has that form.
Shape(s, i, j) ==
  /\ 1 <= i /\ j <= Len(s) /\ j >= i + 2
  /\ IsUpper(s[i]) /\ s[i + 1] \in Digits /\ s[i + 2] \in Digits
  /\ j > i + 2 => /\ s[i + 3] = "."
                  /\ j - (i + 3) \in 1..4
                  /\ \A n \in (i + 4)..j : s[n] \in Digits
Delimited(s, i, j) ==
  /\ i = 1 \/ ~IsWordChar(s[i - 1])
  /\ j = Len(s) \/ ~IsWordChar(s[j + 1])
CodeTokens(s) ==
  {SubSeq(s, i, j) : <<i, j>> \in
     {p \in (1..Len(s)) \X (1..Len(s)) :
        /\ Shape(s, p[1], p[2]) /\ Delimited(s, p[1], p[2])
        /\ \A n \in (p[2] + 1)..Len(s) :
             ~(Shape(s, p[1], n) /\ Delimited(s, p[1], n))}}
Extracted == fn.op = "extract_icd_codes" /\ fn.done

\* C21: extract_icd_codes returns the distinct code tokens of the content,
\* each exactly once, in some order.
C21_ExtractCodes ==
  Extracted =>
    /\ {fn.out[i] : i \in 1..Len(fn.out)} = CodeTokens(fn.arg.note_content)
    /\ \A a, b \in 1..Len(fn.out) : a # b => fn.out[a] # fn.out[b]

\* "I10 R51 I10": the code mentioned twice is listed once, R51 first.
C21_Witness ==
  /\ Extracted
  /\ fn.arg.note_content = <<"I", "1", "0", " ", "R", "5", "1", " ", "I", "1", "0">>
  /\ fn.out = <<<<"R", "5", "1">>, <<"I", "1", "0">>>>

\* ------------------------------------------------------------------- C22
HeaderBuilt == fn.op = "create_header" /\ fn.done
HasLine(lines, first) == \E i \in 1..Len(lines) : lines[i] # <<>> /\ lines[i][1] = first
Mentions(lines, text) ==
  \E i \in 1..Len(lines) : \E n \in 1..Len(lines[i]) : lines[i][n] = text

\* C22: the header has the patient block exactly when patient info is
\* given and the provider block exactly when doctor info is given, and it
\* never holds the placeholder "N/A".
C22_HeaderOmitsMissingFields ==
  HeaderBuilt =>
    /\ HasLine(fn.out, "PATIENT INFORMATION:") <=> fn.arg.patient_info # EmptyDict
    /\ HasLine(fn.out, "PROVIDER INFORMATION:") <=> fn.arg.doctor_info # EmptyDict
    /\ ~Mentions(fn.out, "N/A")

\* ------------------------------------------------------------------- C23
\* C23: the probe never raises into its caller: the call goes on to the
\* generation request exactly when the probe was answered with status 200,
\* and ends with no result and nothing further sent for every other
\* status, for a connection error and for a timeout.
C23_CheckAvailability ==
  [][(call.pc = "probe" /\ call' # call) =>
       /\ call'.pc \in {"post", "done"}
       /\ call'.pc = "post" <=> call'.probe = "200"
       /\ call'.pc = "done" =>
            /\ call'.cause = "probe"
            /\ call'.result = NoText
            /\ call'.net = <<"GET">>]_vars

C23_Witness ==
  /\ call.pc = "done"
  /\ call.probe = "timeout"
  /\ call.cause = "probe"
  /\ call.net = <<"GET">>

\* ------------------------------------------------------------------- C24
Sent(kind) == Len(SelectSeq(call.net, LAMBDA r : r = kind))

\* C24: one invocation sends at most one probe and at most one generation
\* request, and once it has ended nothing more is sent until the caller
\* invokes again.
C24_AtMostOnce == Sent("GET") <= 1 /\ Sent("POST") <= 1
C24_EndedStaysEnded ==
  [][call.pc = "done" => (call' = call \/ (call'.pc = "probe" /\ call'.net = <<>>))]_vars
C24_NoRetries == []C24_AtMostOnce /\ C24_EndedStaysEnded

\* a generation request that timed out, after one probe and one request
C24_Witness ==
  /\ call.pc = "done"
  /\ call.cause = "timeout"
  /\ call.net = <<"GET", "POST">>
  /\ call.result = NoText

\* ------------------------------------------------------------------- C25
BothConstructed == \A p \in Procs : mpc[p] \in {"ready", "failed"}

\* C25: two constructions that start with no key file, interleaved in any
\* way: once both have ended, each one that did not fail holds the key
\* that is in the key file (so both hold the same key).
C25_RacingConstructionsAgree ==
  BothConstructed =>
    \A p \in Procs :
      mpc[p] = "ready" => (Exists(KeyPath) /\ disk[KeyPath] = KeyText(key[p]))

\* ------------------------------------------------------------------- C26
\* decrypt_file with the default output, called by the same manager on
\* the file encrypt_file has just written with its default output
RoundTripStep ==
  /\ lastOp.op = "encrypt_file" /\ lastOp.dflt
  /\ fileOps' = fileOps + 1
  /\ lastOp'.op = "decrypt_file" /\ lastOp'.dflt
  /\ lastOp'.proc = lastOp.proc
  /\ lastOp'.inp = lastOp.out

\* C26: encrypt_file(p) then decrypt_file(p + '.enc'), both with default
\* outputs, is a round trip: the decryption succeeds, writes at p, and p
\* holds its original bytes afterwards.
C26_FileRoundTrip ==
  [][RoundTripStep =>
       /\ lastOp.out = EncDefaultPath(lastOp.inp)
       /\ lastOp'.status = "str"
       /\ lastOp'.out = lastOp.inp
       /\ disk'[lastOp.inp] = disk[lastOp.inp]]_vars

\* ------------------------------------------------------------------- C27
\* the call is between its first line and its return
Exporting == ex.pc \in {"render", "encrypt", "unlink"}

\* C27: export_encrypted leaves alone every file it did not create itself:
\* at each step of a call, a file that is on disk and was not written by
\* this call stays on disk with the same content.
C27_ExportFrame ==
  [][(Exporting /\ ex' # ex) =>
       \A f \in DOMAIN disk :
         f \notin ex.created => (f \in DOMAIN disk' /\ disk'[f] = disk[f])]_vars

\* ------------------------------------------------------------------- C28
\* C28: every row of clinical_notes refers to a patient that exists.
C28_NotesReferToPatients ==
  \A n \in db.notes : n.patient_id \in db.patients

\* ------------------------------------------------------------------- C29
\* the last press of the button was a stop, and every stop_recording
\* started so far has run its first line
StopCalled ==
  /\ ~stt.ui
  /\ stt.stoppers # <<>>
  /\ \A t \in DOMAIN stt.stoppers : stt.stoppers[t].pc # "clear"

\* C29: once stop_recording has been called the recorder's flag is false
\* (so the recording thread leaves its loop), and between the call and the
\* saving of the audio no block that was captured is dropped.
C29_FlagStaysFalse == StopCalled => ~stt.is_recording
C29_BufferKept ==
  [][(\E t \in DOMAIN stt.stoppers : stt.stoppers[t].pc = "read")
       => stt'.recorded_audio >= stt.recorded_audio]_vars
C29_StopStops == []C29_FlagStaysFalse /\ C29_BufferKept

\* ------------------------------------------------------------------- C30
\* the worker threads that have not ended
InFlight == {w \in DOMAIN gen.workers : gen.workers[w] \notin {"ended", "raised"}}

\* C30: at most one generation is in flight, and every generation that
\* was started leads to the Generate button enabled again and to the
\* progress bar stopped.
C30_OneInFlight == Cardinality(InFlight) <= 1
C30_ButtonComesBack == (gen.btn = "disabled") ~> (gen.btn = "normal")
C30_ProgressStops == gen.progress ~> ~gen.progress
C30_OneGenerationAndRecovery ==
  []C30_OneInFlight /\ C30_ButtonComesBack /\ C30_ProgressStops

====
